---- MODULE Spec2Model ----
(***************************************************************************)
(* Run orchestration and live-telemetry broadcast engine of the homelab    *)
(* benchmarking dashboard (src/app.py): the websocket viewers, broadcast,  *)
(* run_benchmark (the run sequencer) and monitor_gpu_during_benchmark (the *)
(* telemetry poller), as asyncio tasks of one event loop.                  *)
(*                                                                         *)
(* A task is suspended only at an await, and one action is what a task     *)
(* does from the await it resumes from to the next await it suspends at.   *)
(* A send_text to a viewer whose link is "stalled" is a pending await (the *)
(* task is parked inside broadcast at that recipient); a send to an "ok"   *)
(* viewer completes; a send to a "broken" or "closed" one raises.  A send  *)
(* that suspends for a short time is a viewer that stalls and resumes.     *)
(***************************************************************************)
EXTENDS Integers, Sequences, FiniteSets, TLC

\* ---------------------------------------------------------------- bounds
NViewers == 2      \* websocket connections that are ever accepted
MaxLines == 2      \* lines a benchmark command prints when it runs to its end
MaxFaults == 1     \* environment faults (errors raised, failing exits, dropped links)
MaxSamples == 1    \* telemetry samples the query returns
MaxFields == 4     \* comma-separated fields in the output of a telemetry query
MaxOutput == 3     \* lines in the output given to an extraction function
MaxRate == 2       \* distinct numbers in the lines given to an extraction function
NLabels == 2       \* labels the run commands name
MaxRuns == 2       \* run commands received
MaxCalls == 2      \* calls of one extraction function in a row
MaxResponse == 5   \* lines in the output of the LLM stage given to the cleaning

Viewers == 1..NViewers
Sources == {"seq", "poll"}
None == <<0>>      \* a file that does not exist (line numbers start at 1)

VARIABLES
    clients,          \* app.py:23  the list of connected websockets
    vstate,           \* per websocket: "new", "ok", "stalled", "broken", "closed"
    gpu_available,    \* app.py:29-37
    ollama_available, \* app.py:40-48
    deleted,          \* app.py:131-159  runs/<label> was removed while its run executes
    options,          \* app.py:230-245  the options of the run command
    pc,               \* run_benchmark: the await the sequencer is suspended at
    commands,         \* app.py:287-292  the stage list, by stage name
    llmCmd,           \* the command of the "Ollama LLM" entry of the stage list
    resolved,         \* app.py:295-340  how the model of the LLM stage was looked up
    si,               \* index of the current stage in commands
    output_lines,     \* app.py:367  lines captured from the current stage
    rc,               \* exit status of the last stage process (-1: none, or running)
    run_metrics,      \* app.py:272-281  the RunRecord
    stageFile,        \* <StageName>.txt per stage name
    llmResponse,      \* llm_response.txt
    metricsJson,      \* metrics.json
    metricsWrites,    \* number of times metrics.json was written
    gpuLog,           \* gpu_metrics.txt, the lines appended
    sample,           \* the poller's temp, util, mem_used, mem_total while in use
    ppc,              \* monitor_gpu_during_benchmark: the await the poller is at
    cancelPending,    \* gpu_monitor_task.cancel() was called and is not yet delivered
    cancelRequested,  \* gpu_monitor_task.cancel() was called
    bc,               \* per source: the broadcast call it is suspended in
    lastKey,          \* per source: the key of the last event it published
    lastRecv,         \* per viewer and source: the key of the last event received
    late,             \* per source: viewers registered after its last broadcast call
    removed,          \* viewers removed from clients by a send that raised
    ev,               \* per stage: the events the sequencer published for it
    runLog,           \* the events of the run outside its stages, as published
    polLast,          \* the kind of the last event the poller published
    faults,           \* environment faults so far
    call,             \* a call of an extraction function: the function and its argument
    ret,              \* what the call returned, and the number of calls made
    tasks,            \* per run command: the label and the place of its run_benchmark task
    runDirs           \* per label: the task that last wrote each file of runs/<label>

engineVars == <<clients, vstate, gpu_available, ollama_available, deleted, options, pc,
                commands, llmCmd, resolved, si, output_lines, rc, run_metrics, stageFile,
                llmResponse,
                metricsJson, metricsWrites, gpuLog, sample, ppc, cancelPending,
                cancelRequested, bc, lastKey, lastRecv, late, removed, ev, runLog,
                polLast, faults>>
callVars == <<call, ret>>
labelVars == <<tasks, runDirs>>
vars == <<engineVars, callVars, labelVars>>

envVars == <<gpu_available, ollama_available, deleted>>
storeVars == <<stageFile, llmResponse, metricsJson, metricsWrites>>
worldVars == <<clients, bc, lastKey, lastRecv, late, removed>>
seqVars == <<options, pc, commands, llmCmd, resolved, si, output_lines, rc, run_metrics,
             ev, runLog>>
askVars == <<options, resolved>>
pollVars == <<gpuLog, sample, ppc, cancelPending, cancelRequested, polLast>>

\* ------------------------------------------------------------- sequences
Range(s) == {s[i] : i \in 1..Len(s)}

RECURSIVE RemoveFirst(_, _)
RemoveFirst(s, x) ==
    IF s = <<>> THEN <<>>
    ELSE IF Head(s) = x THEN Tail(s)
    ELSE <<Head(s)>> \o RemoveFirst(Tail(s), x)

\* clients.remove(client) inside try/except (app.py:260-264): the first
\* occurrence, or nothing when there is none
RemoveClientOther(cl, v) ==
    IF v \in Range(cl) \/ cl = <<>> THEN RemoveFirst(cl, v) ELSE Tail(cl)
RemoveClient(cl, v) == RemoveFirst(cl, v)

\* ------------------------------------------------------------- broadcast
IdleBc == [snap |-> <<>>, i |-> 1, busy |-> FALSE]
NoRecv == [s \in Sources |-> 0]

\* `for client in clients[:]` (app.py:256): the list the loop walks is the copy
\* taken when broadcast is called
RecipientsLive(snap, cl) == cl
Recipients(snap, cl) == snap

RECURSIVE SendLoop(_, _, _, _, _)

\* app.py:259-264: the send to recipient i raised; the client is removed and the
\* loop goes on with the next recipient
OnSendErrorAbort(snap, i, cl, got, failed) ==
    [i |-> Len(Recipients(snap, cl)) + 1,
     cl |-> RemoveClient(cl, Recipients(snap, cl)[i]),
     got |-> got, failed |-> failed \cup {Recipients(snap, cl)[i]}, busy |-> FALSE]
OnSendError(snap, i, cl, got, failed) ==
    SendLoop(snap, i + 1, RemoveClient(cl, Recipients(snap, cl)[i]), got,
             failed \cup {Recipients(snap, cl)[i]})

\* app.py:256-264: the loop of broadcast from recipient i on, as far as it runs
\* without suspending
SendLoop(snap, i, cl, got, failed) ==
    LET lst == Recipients(snap, cl) IN
    IF i > Len(lst)
    THEN [i |-> i, cl |-> cl, got |-> got, failed |-> failed, busy |-> FALSE]
    ELSE IF vstate[lst[i]] = "stalled"
    THEN [i |-> i, cl |-> cl, got |-> got, failed |-> failed, busy |-> TRUE]
    ELSE IF vstate[lst[i]] = "ok"
    THEN SendLoop(snap, i + 1, cl, got \cup {lst[i]}, failed)
    ELSE OnSendError(snap, i, cl, got, failed)

\* The viewers' side of the state, as a record the tasks' steps transform
World == [clients |-> clients, bc |-> bc, lastKey |-> lastKey, lastRecv |-> lastRecv,
          late |-> late, removed |-> removed]

\* the effect of a run r of the send loop of source src on the event of key k
Sent(w, src, snap, r, k) ==
    [w EXCEPT !.clients = r.cl,
              !.bc[src] = IF r.busy THEN [snap |-> snap, i |-> r.i, busy |-> TRUE]
                          ELSE IdleBc,
              !.lastRecv = [v \in Viewers |->
                              IF v \in r.failed THEN NoRecv
                              ELSE IF v \in r.got THEN [w.lastRecv[v] EXCEPT ![src] = k]
                              ELSE w.lastRecv[v]],
              !.late = [s \in Sources |-> w.late[s] \ r.failed],
              !.removed = w.removed \cup r.failed]

\* app.py:254-256: broadcast(message) is called with the event of key k
BeginBroadcast(w, src, k) ==
    Sent([w EXCEPT !.lastKey[src] = k, !.late[src] = {}],
         src, w.clients, SendLoop(w.clients, 1, w.clients, {}, {}), k)

\* app.py:258: the pending send of the parked call completes or raises
ResumeBroadcast(w, src) ==
    Sent(w, src, w.bc[src].snap,
         SendLoop(w.bc[src].snap, w.bc[src].i, w.clients, {}, {}), w.lastKey[src])

\* app.py:258-264: the pending send of the parked call raises CancelledError; the
\* bare `except:` catches it like any failed send
CancelledBroadcast(w, src) ==
    Sent(w, src, w.bc[src].snap,
         IF w.bc[src].i > Len(Recipients(w.bc[src].snap, w.clients))
         THEN SendLoop(w.bc[src].snap, w.bc[src].i, w.clients, {}, {})
         ELSE OnSendError(w.bc[src].snap, w.bc[src].i, w.clients, {}, {}),
         w.lastKey[src])

Parked(src) == bc[src].busy
ParkedAt(src) == Recipients(bc[src].snap, clients)[bc[src].i]
CanResume(src) ==
    /\ Parked(src)
    /\ IF bc[src].i > Len(Recipients(bc[src].snap, clients)) THEN TRUE
       ELSE vstate[ParkedAt(src)] # "stalled"

SetWorld(w) ==
    /\ clients' = w.clients
    /\ bc' = w.bc
    /\ lastKey' = w.lastKey
    /\ lastRecv' = w.lastRecv
    /\ late' = w.late
    /\ removed' = w.removed

\* --------------------------------------------------------------- viewers
\* websocket_endpoint, app.py:217-218: ws.accept(); clients.append(ws).
\* Viewer v is the v-th connection accepted.
Connect(v) ==
    /\ vstate[v] = "new"
    /\ \A u \in Viewers : u < v => vstate[u] # "new"
    /\ vstate' = [vstate EXCEPT ![v] = "ok"]
    /\ clients' = Append(clients, v)
    /\ late' = [s \in Sources |-> late[s] \cup {v}]
    /\ UNCHANGED <<callVars, labelVars>>
    /\ UNCHANGED <<envVars, seqVars, storeVars, pollVars, bc, lastKey, lastRecv,
                   removed, faults>>

\* the viewer stops reading: a send to it stays pending
Stall(v) ==
    /\ vstate[v] = "ok"
    /\ vstate' = [vstate EXCEPT ![v] = "stalled"]
    /\ UNCHANGED <<callVars, labelVars>>
    /\ UNCHANGED <<envVars, seqVars, storeVars, pollVars, worldVars, faults>>

\* the viewer reads again
Unstall(v) ==
    /\ vstate[v] = "stalled"
    /\ vstate' = [vstate EXCEPT ![v] = "ok"]
    /\ UNCHANGED <<callVars, labelVars>>
    /\ UNCHANGED <<envVars, seqVars, storeVars, pollVars, worldVars, faults>>

\* the peer goes away: from now on send_text raises
Drop(v) ==
    /\ vstate[v] \in {"ok", "stalled"}
    /\ faults < MaxFaults
    /\ faults' = faults + 1
    /\ vstate' = [vstate EXCEPT ![v] = "broken"]
    /\ lastRecv' = [lastRecv EXCEPT ![v] = NoRecv]
    /\ late' = [s \in Sources |-> late[s] \ {v}]
    /\ UNCHANGED <<callVars, labelVars>>
    /\ UNCHANGED <<envVars, seqVars, storeVars, pollVars, clients, bc, lastKey,
                   removed>>

\* websocket_endpoint, app.py:249-252: receive_text raises WebSocketDisconnect
Disconnect(v) ==
    /\ vstate[v] = "broken"
    /\ vstate' = [vstate EXCEPT ![v] = "closed"]
    /\ clients' = IF v \in Range(clients) THEN RemoveFirst(clients, v) ELSE clients
    /\ UNCHANGED <<callVars, labelVars>>
    /\ UNCHANGED <<envVars, seqVars, storeVars, pollVars, bc, lastKey, lastRecv,
                   late, removed, faults>>

\* ------------------------------------------------------- the run sequencer
\* app.py:287-292 and 301: the stage names
BaseCommands == <<"CPU 1 thread", "CPU all threads", "Memory test", "Disk test">>
LlmStage == "Ollama LLM"
StageNames == Range(BaseCommands) \cup {LlmStage}

\* options["model"] of a run command: no model, or the name of one
Models == {"", "mistral"}
\* app.py:326: the first model `ollama list` prints; app.py:332-334: the default
FirstListed == "phi3"
DefaultModel == "llama3.1:8b"

\* the command of the LLM stage (app.py:301, 328, 334, 337, 340): the program and
\* the model it is given, or what it echoes
NoCmd == <<"", "">>
OllamaRun(model) == <<"ollama run", model>>
EchoUnavailable == <<"echo", "Ollama not available">>
EchoError == <<"echo", "Ollama error occurred">>

\* app.py:295: `if options.get("ollama") and ollama_available`
LlmWantedByOption == options.ollama
LlmWanted == options.ollama /\ ollama_available

\* the lines a command prints when it runs to its end: echo prints one
Prints(nm, cmd) == IF nm = LlmStage /\ cmd[1] = "echo" THEN 1 ELSE MaxLines

\* ------------------------------------------------------------ line texts
\* The text of a line is the sequence of the tokens the extraction rules look at.
\* A token is a decimal number (digits, a point, digits) with its value, or a
\* piece of text; the tokens of a line are separated by blanks.
Num(n) == [k |-> "num", v |-> n]
Tok(t) == [k |-> t, v |-> 0]
Has(text, t) == \E i \in 1..Len(text) : text[i].k = t

\* the first place of text where the tokens of kinds pat follow one another,
\* 0 when there is none (re.search takes the leftmost match)
Search(text, pat) ==
    LET hits == {i \in 1..Len(text) :
                    /\ i + Len(pat) - 1 <= Len(text)
                    /\ \A j \in 1..Len(pat) : text[i + j - 1].k = pat[j]}
    IN IF hits = {} THEN 0 ELSE CHOOSE i \in hits : \A h \in hits : i <= h

\* A command that runs to its end prints lines 1..MaxLines; the last one is its
\* result line (the disk test has two, the rates read and written).
ResultLine == MaxLines

\* The lines the benchmark tools print, by stage and line number:
\*   sysbench cpu      "events per second:  <n>"
\*   sysbench memory   "<n> MiB transferred (<n> MiB/sec)"
\*   sysbench fileio   "read, MiB/s:  <n>" and "written, MiB/s:  <n>"
\*   ollama run        the text of the answer
LineText(nm, line) ==
    IF nm = "Disk test" /\ line = ResultLine - 1
    THEN <<Tok("read, MiB/s"), Tok(":"), Num(4)>>
    ELSE IF line # ResultLine THEN <<Tok("text")>>
    ELSE CASE nm = "CPU 1 thread" -> <<Tok("events per second"), Tok(":"), Num(1)>>
           [] nm = "CPU all threads" -> <<Tok("events per second"), Tok(":"), Num(2)>>
           [] nm = "Memory test" -> <<Num(9), Tok("MiB"), Tok("transferred"), Tok("("),
                                      Num(3), Tok("MiB/sec"), Tok(")")>>
           [] nm = "Disk test" -> <<Tok("written, MiB/s"), Tok(":"), Num(5)>>
           [] OTHER -> <<Tok("text")>>
Texts(nm, lines) == [i \in 1..Len(lines) |-> LineText(nm, lines[i])]

\* app.py:272-281: the RunRecord; 0 stands for None in the two cpu fields
EmptyMetrics == [cpu1Thread |-> 0, cpuAllThreads |-> 0, memRead |-> 0, memWrite |-> 0,
                 diskRead |-> 0, diskWrite |-> 0, ollama |-> 0,
                 gpu |-> [temperature |-> <<>>, utilization |-> <<>>,
                          memory_used |-> <<>>]]

\* app.py:378-381: "events per second" in line_text, and
\* re.search(r'(\d+\.\d+)\s+events per second', line_text); 0 when there is no match
RealtimeCpu(text) ==
    IF Has(text, "events per second") /\ Search(text, <<"num", "events per second">>) # 0
    THEN text[Search(text, <<"num", "events per second">>)].v
    ELSE 0

\* app.py:378-385, on the line just read
ParseRealtime(m, nm, line) ==
    IF RealtimeCpu(LineText(nm, line)) = 0 THEN m
    ELSE IF nm = "CPU 1 thread" THEN [m EXCEPT !.cpu1Thread = RealtimeCpu(LineText(nm, line))]
    ELSE IF nm = "CPU all threads"
    THEN [m EXCEPT !.cpuAllThreads = RealtimeCpu(LineText(nm, line))]
    ELSE m

\* a dict of metrics: the keys that were set, with their values
NoMetrics == [key \in {} |-> 0]
Put(d, key, val) == [x \in DOMAIN d \cup {key} |-> IF x = key THEN val ELSE d[x]]
Get(d, key, default) == IF key \in DOMAIN d THEN d[key] ELSE default

\* data_parser.py:26-30, one line of parse_sysbench_cpu:
\* re.search(r'events per second:\s*(\d+\.\d+)', line)
CpuLine(metrics, text) ==
    IF Has(text, "events per second")
       /\ Search(text, <<"events per second", ":", "num">>) # 0
    THEN Put(metrics, "events_per_second",
             text[Search(text, <<"events per second", ":", "num">>) + 2].v)
    ELSE metrics

\* data_parser.py:81-89, one line of parse_sysbench_memory:
\* re.search(r'(\d+\.\d+)\s+MiB/sec', line) on a line with "transferred"; a token
\* "read" is any text in which line.lower() has 'read'
MemoryLineReadOnly(metrics, text) ==
    IF Has(text, "transferred") /\ Search(text, <<"num", "MiB/sec">>) # 0
    THEN Put(metrics, "read_mib_sec", text[Search(text, <<"num", "MiB/sec">>)].v)
    ELSE metrics
MemoryLine(metrics, text) ==
    IF Has(text, "transferred") /\ Search(text, <<"num", "MiB/sec">>) # 0
    THEN IF Has(text, "read") \/ "read_mib_sec" \notin DOMAIN metrics
         THEN Put(metrics, "read_mib_sec", text[Search(text, <<"num", "MiB/sec">>)].v)
         ELSE Put(metrics, "write_mib_sec", text[Search(text, <<"num", "MiB/sec">>)].v)
    ELSE metrics

\* data_parser.py:130-139, one line of parse_sysbench_disk: re.search(r'(\d+\.\d+)', line)
DiskWritten(metrics, text) ==
    IF Has(text, "written, MiB/s") /\ Search(text, <<"num">>) # 0
    THEN Put(metrics, "write_mib_s", text[Search(text, <<"num">>)].v)
    ELSE metrics
DiskLine(metrics, text) ==
    DiskWritten(IF Has(text, "read, MiB/s") /\ Search(text, <<"num">>) # 0
                THEN Put(metrics, "read_mib_s", text[Search(text, <<"num">>)].v)
                ELSE metrics,
                text)

\* `for line in output` of the three parsers, from line i on
RECURSIVE parse_sysbench_cpu(_, _, _)
parse_sysbench_cpu(output, i, metrics) ==
    IF i > Len(output) THEN metrics
    ELSE parse_sysbench_cpu(output, i + 1, CpuLine(metrics, output[i]))

RECURSIVE parse_sysbench_memory(_, _, _)
parse_sysbench_memory(output, i, metrics) ==
    IF i > Len(output) THEN metrics
    ELSE parse_sysbench_memory(output, i + 1, MemoryLine(metrics, output[i]))

RECURSIVE parse_sysbench_disk(_, _, _)
parse_sysbench_disk(output, i, metrics) ==
    IF i > Len(output) THEN metrics
    ELSE parse_sysbench_disk(output, i + 1, DiskLine(metrics, output[i]))

\* app.py:402-406: the last line with "Tokens/sec:" and a number after it
RECURSIVE OllamaTokens(_, _, _)
OllamaTokens(output, i, val) ==
    IF i > Len(output) THEN val
    ELSE OllamaTokens(output, i + 1,
                      IF Search(output[i], <<"Tokens/sec:", "num">>) # 0
                      THEN output[i][Search(output[i], <<"Tokens/sec:", "num">>) + 1].v
                      ELSE val)

\* app.py:392-395: the memory fields of the record from the parsed output
MemoryFields(m, output) ==
    [m EXCEPT !.memRead = Get(parse_sysbench_memory(output, 1, NoMetrics),
                              "read_mib_sec", 0),
              !.memWrite = Get(parse_sysbench_memory(output, 1, NoMetrics),
                               "write_mib_sec", 0)]

\* app.py:396-399: the disk fields of the record from the parsed output
DiskKeys == [read |-> "disk_read_mib_s", write |-> "disk_write_mib_s"]
DiskFields(m, output) ==
    [m EXCEPT !.diskRead = Get(parse_sysbench_disk(output, 1, NoMetrics),
                               DiskKeys.read, 0),
              !.diskWrite = Get(parse_sysbench_disk(output, 1, NoMetrics),
                                DiskKeys.write, 0)]

\* app.py:392-414, on the whole captured output
ParseFinal(m, nm, lines) ==
    IF nm = "Memory test" THEN MemoryFields(m, Texts(nm, lines))
    ELSE IF nm = "Disk test" THEN DiskFields(m, Texts(nm, lines))
    ELSE IF nm = LlmStage
    THEN [m EXCEPT !.ollama = OllamaTokens(Texts(nm, lines), 1, m.ollama)]
    ELSE m

\* the event of a line: broadcast(f"[{label}] {name}: {line_text}"), app.py:373-375
LineEventFirst(nm, lines) == <<"line", nm, lines[1]>>
LineEvent(nm, lines) == <<"line", nm, lines[Len(lines)]>>

\* the broadcast calls of run_benchmark
PubPcs == {"pubStarted", "pubDir", "pubOllama", "pubModel", "pubInstall",
           "pubListFailed", "pubListError", "pubGpu", "pubRunning", "pubLine",
           "pubSaved", "pubCompleted", "pubFailed", "pubMetricsSaved",
           "pubMetricsFailed", "pubSummary", "pubCpu", "pubMem", "pubDisk",
           "pubFinished"}
StagePubPcs == {"pubRunning", "pubLine", "pubSaved", "pubCompleted", "pubFailed"}

\* The sequencer's side of the state, as a record its step transforms
SeqState == [w |-> World, pc |-> pc, si |-> si, commands |-> commands,
             llmCmd |-> llmCmd,
             output_lines |-> output_lines, run_metrics |-> run_metrics, ev |-> ev,
             runLog |-> runLog,
             ppc |-> ppc, cancelPending |-> cancelPending,
             cancelRequested |-> cancelRequested]

StageOf(st) == IF st.pc \in StagePubPcs THEN st.commands[st.si] ELSE ""

\* app.py:300, 304, 342, 344: the first message about the LLM stage
OllamaEvent ==
    IF LlmWanted THEN (IF options.model # "" THEN "usingSelected" ELSE "autoDetect")
    ELSE IF options.ollama THEN "ollamaUnavailable"
    ELSE "ollamaDisabled"

\* the message of the broadcast call at st.pc
SeqEvent(st) ==
    CASE st.pc = "pubStarted" -> <<"started", "", 0>>
      [] st.pc = "pubDir" -> <<"dir", "", 0>>
      [] st.pc = "pubOllama" -> <<OllamaEvent, "", 0>>
      [] st.pc = "pubModel" -> <<"usingFirst", "", 0>>
      [] st.pc = "pubInstall" -> <<"installing", "", 0>>
      [] st.pc = "pubListFailed" -> <<"listFailed", "", 0>>
      [] st.pc = "pubListError" -> <<"listError", "", 0>>
      [] st.pc = "pubGpu" -> <<"gpu", "", 0>>
      [] st.pc = "pubRunning" -> <<"running", StageOf(st), 0>>
      [] st.pc = "pubLine" -> LineEvent(StageOf(st), st.output_lines)
      [] st.pc = "pubSaved" -> <<"llmSaved", StageOf(st), 0>>
      [] st.pc = "pubCompleted" -> <<"completed", StageOf(st), 0>>
      [] st.pc = "pubFailed" -> <<"failed", StageOf(st), 0>>
      [] st.pc = "pubMetricsSaved" -> <<"metricsSaved", "", 0>>
      [] st.pc = "pubMetricsFailed" -> <<"metricsFailed", "", 0>>
      [] st.pc = "pubSummary" -> <<"summary", "", 0>>
      [] st.pc = "pubCpu" -> <<"cpu", "", 0>>
      [] st.pc = "pubMem" -> <<"mem", "", 0>>
      [] st.pc = "pubDisk" -> <<"disk", "", 0>>
      [] st.pc = "pubFinished" -> <<"finished", "", 0>>

\* The key of an event of the sequencer: its place in the order of the messages
\* of one run (preamble, then per stage the start, the lines by line number, the
\* terminal event, then the finalization).
KeyWidth == MaxLines + 4
SeqKey(st) ==
    CASE st.pc = "pubStarted" -> 1
      [] st.pc = "pubDir" -> 2
      [] st.pc = "pubOllama" -> 3
      [] st.pc \in {"pubModel", "pubInstall", "pubListFailed"} -> 4
      [] st.pc = "pubListError" -> 5
      [] st.pc = "pubGpu" -> 6
      [] st.pc = "pubRunning" -> st.si * KeyWidth + 1
      [] st.pc = "pubLine" -> st.si * KeyWidth + 1 + SeqEvent(st)[3]
      [] st.pc = "pubSaved" -> st.si * KeyWidth + MaxLines + 2
      [] st.pc \in {"pubCompleted", "pubFailed"} -> st.si * KeyWidth + MaxLines + 3
      [] st.pc \in {"pubMetricsSaved", "pubMetricsFailed"} ->
             (Len(st.commands) + 1) * KeyWidth + 1
      [] st.pc = "pubSummary" -> (Len(st.commands) + 1) * KeyWidth + 2
      [] st.pc = "pubCpu" -> (Len(st.commands) + 1) * KeyWidth + 3
      [] st.pc = "pubMem" -> (Len(st.commands) + 1) * KeyWidth + 4
      [] st.pc = "pubDisk" -> (Len(st.commands) + 1) * KeyWidth + 5
      [] st.pc = "pubFinished" -> (Len(st.commands) + 1) * KeyWidth + 6

NoEvents == [starts |-> 0, lines |-> <<>>, terminals |-> <<>>]

\* the events published so far, per stage
RecordEvent(e, x) ==
    IF x[1] = "running" THEN [e EXCEPT ![x[2]].starts = @ + 1]
    ELSE IF x[1] = "line" THEN [e EXCEPT ![x[2]].lines = Append(@, x[3])]
    ELSE IF x[1] \in {"completed", "failed"}
    THEN [e EXCEPT ![x[2]].terminals = Append(@, x[1])]
    ELSE e

\* the events published so far outside the stages
RecordRunEvent(l, x) == IF x[2] = "" THEN Append(l, x[1]) ELSE l

\* app.py:459-469: the summary lines are published only for non-zero fields
AfterSummaryAnyValue(st) ==
    IF st.pc = "pubSummary" /\ st.run_metrics.cpuAllThreads # 0 THEN "pubCpu"
    ELSE IF st.pc \in {"pubSummary", "pubCpu"}
            /\ (st.run_metrics.memRead > 0 \/ st.run_metrics.memWrite > 0)
    THEN "pubMem"
    ELSE IF st.pc \in {"pubSummary", "pubCpu", "pubMem"}
            /\ (st.run_metrics.diskRead > 0 \/ st.run_metrics.diskWrite > 0)
    THEN "pubDisk"
    ELSE "pubFinished"
AfterSummary(st) ==
    IF st.pc = "pubSummary" /\ st.run_metrics.cpuAllThreads # 0 THEN "pubCpu"
    ELSE IF st.pc \in {"pubSummary", "pubCpu"} /\ st.run_metrics.memRead > 0
    THEN "pubMem"
    ELSE IF st.pc \in {"pubSummary", "pubCpu", "pubMem"} /\ st.run_metrics.diskRead > 0
    THEN "pubDisk"
    ELSE "pubFinished"

\* the end of one pass of `for name, cmd in commands` (app.py:355)
AfterStage(st) == IF st.si < Len(st.commands) THEN "pubRunning" ELSE "stopGpu"

\* app.py:435 and 437-439: the terminal event of a stage
TerminalPcNone(failed) == "afterStage"
TerminalPc(failed) == IF failed THEN "pubFailed" ELSE "pubCompleted"

\* app.py:454-459: after either message about metrics.json comes the summary
AfterSaveAbort(p) == IF p = "pubMetricsFailed" THEN "done" ELSE "pubSummary"
AfterSave(p) == "pubSummary"

\* the statement after the broadcast call at st.pc
NextPc(st) ==
    CASE st.pc = "pubStarted" -> "pubDir"
      [] st.pc = "pubDir" -> "pubOllama"
      [] st.pc = "pubOllama" ->
             IF LlmWanted /\ options.model = "" THEN "listModels" ELSE "pubGpu"
      [] st.pc = "pubInstall" -> "pull"
      [] st.pc \in {"pubModel", "pubListFailed", "pubListError"} -> "pubGpu"
      [] st.pc = "pubGpu" -> "pubRunning"
      [] st.pc = "pubRunning" -> "launch"
      [] st.pc = "pubLine" -> "read"
      [] st.pc = "pubSaved" -> TerminalPc(FALSE)
      [] st.pc \in {"pubCompleted", "pubFailed"} -> "afterStage"
      [] st.pc \in {"pubMetricsSaved", "pubMetricsFailed"} -> AfterSave(st.pc)
      [] st.pc \in {"pubSummary", "pubCpu", "pubMem", "pubDisk"} -> AfterSummary(st)
      [] st.pc = "pubFinished" -> "done"

\* app.py:301, 328, 337, 340: the command appended to the stage list after the
\* broadcast call at st.pc, NoCmd when none is
LlmCommand(st) ==
    CASE st.pc = "pubOllama" /\ LlmWanted /\ options.model # "" -> OllamaRun(options.model)
      [] st.pc = "pubModel" -> OllamaRun(FirstListed)
      [] st.pc = "pubListFailed" -> EchoUnavailable
      [] st.pc = "pubListError" -> EchoError
      [] OTHER -> NoCmd

\* what run_benchmark does when its broadcast call at st.pc has returned
Returned(st) ==
    [st EXCEPT !.pc = NextPc(st),
               !.si = IF st.pc = "pubGpu" THEN 1 ELSE st.si,
               !.commands = IF LlmCommand(st) # NoCmd THEN Append(st.commands, LlmStage)
                            ELSE st.commands,
               !.llmCmd = IF LlmCommand(st) # NoCmd THEN LlmCommand(st) ELSE st.llmCmd,
               !.run_metrics = IF st.pc = "pubLine"
                               THEN ParseRealtime(st.run_metrics, StageOf(st),
                                        st.output_lines[Len(st.output_lines)])
                               ELSE st.run_metrics]

\* app.py:348: `if options.get("gpu") and gpu_available`
PollerWantedAlways == TRUE
PollerWanted == options.gpu /\ gpu_available

\* what run_benchmark does before its broadcast call at st.pc: at app.py:349 the
\* poller task is created
Calling(st) ==
    [st EXCEPT !.ppc = IF st.pc = "pubGpu" /\ PollerWanted THEN "init" ELSE st.ppc,
               !.ev = RecordEvent(st.ev, SeqEvent(st)),
               !.runLog = RecordRunEvent(st.runLog, SeqEvent(st)),
               !.w = BeginBroadcast(st.w, "seq", SeqKey(st))]

\* the broadcast call at st.pc runs (again, when the sequencer is parked in it) up
\* to its first pending send
Called(st) ==
    IF st.w.bc["seq"].busy THEN [st EXCEPT !.w = ResumeBroadcast(st.w, "seq")]
    ELSE Calling(st)

\* app.py:441-447: after gpu_monitor_task.cancel() the task is awaited
StopPcNoAwait(p) == "saveMetrics"
StopPc(p) == IF p = "none" THEN "saveMetrics" ELSE "awaitPoller"

\* run_benchmark from the statement at st.pc up to the await it suspends at
RECURSIVE Run(_)
Run(st) ==
    IF st.pc = "afterStage"
    THEN CHOOSE r \in {Run(st1) : st1 \in
                 {[st EXCEPT !.pc = AfterStage(st),
                             !.si = IF st.si < Len(st.commands) THEN st.si + 1
                                    ELSE st.si]}} : TRUE
    ELSE IF st.pc = "stopGpu"
    THEN IF st.ppc = "none"
         THEN [st EXCEPT !.pc = StopPc(st.ppc)]
         ELSE [st EXCEPT !.pc = StopPc(st.ppc), !.cancelRequested = TRUE,
                         !.cancelPending = (st.ppc # "done")]
    ELSE IF st.pc \notin PubPcs THEN st
    ELSE CHOOSE r \in UNION {{IF st1.w.bc["seq"].busy THEN st1 ELSE Run(st2) :
                                  st2 \in {Returned(st1)}} :
                              st1 \in {Called(st)}} : TRUE

SetSeq(st) ==
    /\ SetWorld(st.w)
    /\ pc' = st.pc
    /\ si' = st.si
    /\ commands' = st.commands
    /\ llmCmd' = st.llmCmd
    /\ output_lines' = st.output_lines
    /\ run_metrics' = st.run_metrics
    /\ ev' = st.ev
    /\ runLog' = st.runLog
    /\ ppc' = st.ppc
    /\ cancelPending' = st.cancelPending
    /\ cancelRequested' = st.cancelRequested

\* the poller task has run up to its first await (create_task made it ready before
\* the sequencer suspended, and the loop runs ready tasks in order)
PollerStarted == ppc # "init"

\* websocket_endpoint, app.py:227-248: a viewer sends
\* run:<label>:gpu=..:ollama=..:model=.. and the task of run_benchmark is created; a
\* model is named with ollama=true (without it app.py:295-296 never reads it)
\* (the engine is followed through one run; several run commands and their labels
\* are the subject of LabelSpec)
StartRun(v, g, o, m) ==
    /\ pc = "idle"
    /\ vstate[v] \in {"ok", "stalled"}
    /\ options' = [gpu |-> g, ollama |-> o, model |-> m]
    /\ pc' = "created"
    /\ UNCHANGED <<callVars, labelVars>>
    /\ UNCHANGED <<vstate, envVars, commands, llmCmd, resolved, si, output_lines, rc,
                   run_metrics, ev,
                   runLog, storeVars, pollVars, worldVars, faults>>

\* app.py:268-356: the task starts: the record, the preamble, the stage list, the
\* poller task, the first stage
SeqBegin ==
    /\ pc = "created"
    /\ \E st0 \in {[SeqState EXCEPT !.pc = "pubStarted", !.commands = BaseCommands,
                                   !.run_metrics = EmptyMetrics]} :
           \E st \in {Run(st0)} : SetSeq(st)
    /\ UNCHANGED <<callVars, labelVars>>
    /\ UNCHANGED <<vstate, envVars, askVars, rc, storeVars, gpuLog, sample, polLast, faults>>

\* app.py:269 raises (the directory cannot be created): the exception leaves
\* run_benchmark and the task ends with it
SeqBeginError ==
    /\ pc = "created"
    /\ faults < MaxFaults
    /\ faults' = faults + 1
    /\ pc' = "crashed"
    /\ UNCHANGED <<callVars, labelVars>>
    /\ UNCHANGED <<vstate, envVars, askVars, commands, llmCmd, si, output_lines, rc,
                   run_metrics, ev, runLog, storeVars, pollVars, worldVars>>

\* app.py:306-340: what `ollama list` came to: it printed models, it printed none,
\* it exited non-zero, or starting or reading it raised
ListResults == {"listed", "empty", "listFailed", "listRaised"}
ListPc(result) ==
    CASE result = "listed" -> "pubModel"
      [] result = "empty" -> "pubInstall"
      [] result = "listFailed" -> "pubListFailed"
      [] result = "listRaised" -> "pubListError"

\* app.py:306-340: communicate of `ollama list` returns, or the try block raises
SeqListModels(result) ==
    /\ pc = "listModels"
    /\ IF result \in {"listFailed", "listRaised"}
       THEN faults < MaxFaults /\ faults' = faults + 1
       ELSE faults' = faults
    /\ resolved' = result
    /\ \E st0 \in {[SeqState EXCEPT !.pc = ListPc(result)]} :
           \E st \in {Run(st0)} : SetSeq(st)
    /\ UNCHANGED <<callVars, labelVars>>
    /\ UNCHANGED <<vstate, envVars, options, rc, storeVars, gpuLog, sample, polLast>>

\* app.py:332-334: what `ollama pull llama3.1:8b` came to: it exited with 0, it
\* exited non-zero (the exit status is not read), or starting it raised
PullResults == {"pullOk", "pullFailed", "pullRaised"}
Pulled(st, result) ==
    IF result = "pullRaised" THEN [st EXCEPT !.pc = "pubListError"]
    ELSE [st EXCEPT !.pc = "pubGpu",
                    !.commands = Append(st.commands, LlmStage),
                    !.llmCmd = OllamaRun(DefaultModel)]

SeqPull(result) ==
    /\ pc = "pull"
    /\ IF result = "pullOk" THEN faults' = faults
       ELSE faults < MaxFaults /\ faults' = faults + 1
    /\ resolved' = result
    /\ \E st0 \in {Pulled(SeqState, result)} : \E st \in {Run(st0)} : SetSeq(st)
    /\ UNCHANGED <<callVars, labelVars>>
    /\ UNCHANGED <<vstate, envVars, options, rc, storeVars, gpuLog, sample, polLast>>

\* app.py:258: the pending send of the sequencer's broadcast call completes or raises
SeqResume ==
    /\ CanResume("seq")
    /\ PollerStarted
    /\ \E st0 \in {SeqState} : \E st \in {Run(st0)} : SetSeq(st)
    /\ UNCHANGED <<callVars, labelVars>>
    /\ UNCHANGED <<vstate, envVars, askVars, rc, storeVars, gpuLog, sample, polLast, faults>>

\* app.py:360-367: create_subprocess_shell returns
SeqLaunch ==
    /\ pc = "launch"
    /\ PollerStarted
    /\ ~deleted
    /\ pc' = "read"
    /\ output_lines' = <<>>
    /\ rc' = -1
    /\ UNCHANGED <<callVars, labelVars>>
    /\ UNCHANGED <<vstate, envVars, askVars, commands, llmCmd, si, run_metrics, ev, runLog,
                   storeVars, pollVars, worldVars, faults>>

\* app.py:360-365 raises (the command cannot be started, or cwd=run_dir is not
\* there any more): app.py:437-439
SeqLaunchError ==
    /\ pc = "launch"
    /\ PollerStarted
    /\ deleted \/ faults < MaxFaults
    /\ faults' = IF deleted THEN faults ELSE faults + 1
    /\ \E st0 \in {[SeqState EXCEPT !.pc = TerminalPc(TRUE),
                                          !.output_lines = <<>>]} :
           \E st \in {Run(st0)} : SetSeq(st)
    /\ UNCHANGED <<callVars, labelVars>>
    /\ UNCHANGED <<vstate, envVars, askVars, rc, storeVars, gpuLog, sample, polLast>>

\* app.py:370-385: readline returns the next line
SeqReadLine ==
    /\ pc = "read"
    /\ Len(output_lines) < Prints(commands[si], llmCmd)
    /\ \E st0 \in {[SeqState EXCEPT
                           !.pc = "pubLine",
                           !.output_lines = Append(output_lines, Len(output_lines) + 1)]} :
           \E st \in {Run(st0)} : SetSeq(st)
    /\ UNCHANGED <<callVars, labelVars>>
    /\ UNCHANGED <<vstate, envVars, askVars, rc, storeVars, gpuLog, sample, polLast, faults>>

\* app.py:370-373 raises (readline over the stream limit, a line that is not UTF-8)
SeqReadError ==
    /\ pc = "read"
    /\ faults < MaxFaults
    /\ faults' = faults + 1
    /\ \E st0 \in {[SeqState EXCEPT !.pc = TerminalPc(TRUE)]} :
           \E st \in {Run(st0)} : SetSeq(st)
    /\ UNCHANGED <<callVars, labelVars>>
    /\ UNCHANGED <<vstate, envVars, askVars, rc, storeVars, gpuLog, sample, polLast>>

\* app.py:389 and 427: "\n".join(output_lines)
RECURSIVE Join(_)
Join(texts) ==
    IF texts = <<>> THEN <<>>
    ELSE IF Len(texts) = 1 THEN texts[1]
    ELSE texts[1] \o <<Tok("\n")>> \o Join(Tail(texts))

\* ---- app.py:417-424, clean_ansi_codes.  In the text given to it a token is one
\* character: ESC (\x1B), "[", "0" (a digit, one of [0-?]), " " (a blank, one of
\* [ -/]), "m" (a small letter, one of [@-~]), "M" (a capital, one of [@-Z] and of
\* [@-~]), "\n"; any other token is text without these.
FeBytes == {"M"}
ParamBytes == {"0"}
IntermediateBytes == {" "}
FinalBytes == {"[", "m", "M"}
White == {" ", "\n"}

\* the first place from i on whose character is not of kinds
RECURSIVE SkipWhile(_, _, _)
SkipWhile(text, i, kinds) ==
    IF i <= Len(text) /\ text[i].k \in kinds THEN SkipWhile(text, i + 1, kinds) ELSE i

\* the place where the match of \x1B(?:[@-Z\\-_]|\[[0-?]*[ -/]*[@-~]) that begins at p
\* ends, 0 when the pattern does not match at p
AnsiEnd(text, p) ==
    IF text[p].k # "ESC" THEN 0
    ELSE IF p = Len(text) THEN 0
    ELSE IF text[p + 1].k \in FeBytes THEN p + 1
    ELSE IF text[p + 1].k # "[" THEN 0
    ELSE IF SkipWhile(text, SkipWhile(text, p + 2, ParamBytes), IntermediateBytes)
            > Len(text) THEN 0
    ELSE IF text[SkipWhile(text, SkipWhile(text, p + 2, ParamBytes),
                           IntermediateBytes)].k \in FinalBytes
    THEN SkipWhile(text, SkipWhile(text, p + 2, ParamBytes), IntermediateBytes)
    ELSE 0

\* ansi_pattern.sub('', text), from p on
RECURSIVE StripAnsi(_, _)
StripAnsi(text, p) ==
    IF p > Len(text) THEN <<>>
    ELSE IF AnsiEnd(text, p) # 0 THEN StripAnsi(text, AnsiEnd(text, p) + 1)
    ELSE <<text[p]>> \o StripAnsi(text, p + 1)

\* re.sub(r'\n{3,}', '\n\n', text), from p on
RECURSIVE Collapse(_, _)
Collapse(text, p) ==
    IF p > Len(text) THEN <<>>
    ELSE IF text[p].k # "\n" THEN <<text[p]>> \o Collapse(text, p + 1)
    ELSE (IF SkipWhile(text, p, {"\n"}) - p >= 3 THEN <<Tok("\n"), Tok("\n")>>
          ELSE SubSeq(text, p, SkipWhile(text, p, {"\n"}) - 1))
         \o Collapse(text, SkipWhile(text, p, {"\n"}))

\* text.strip()
Strip(text) ==
    IF \A i \in 1..Len(text) : text[i].k \in White THEN <<>>
    ELSE SubSeq(text,
                CHOOSE i \in 1..Len(text) :
                    text[i].k \notin White /\ \A j \in 1..(i - 1) : text[j].k \in White,
                CHOOSE i \in 1..Len(text) :
                    text[i].k \notin White
                    /\ \A j \in (i + 1)..Len(text) : text[j].k \in White)

clean_ansi_codes(text) ==
    CHOOSE r \in {Strip(c) : c \in {Collapse(s, 1) : s \in {StripAnsi(text, 1)}}} : TRUE

\* app.py:427-432: llm_response.txt after the LLM stage printed the lines texts:
\* the cleaned text when it is not empty, no file otherwise
SaveResponse(texts) ==
    CHOOSE r \in {[written |-> c # <<>>, content |-> c] :
                      c \in {clean_ansi_codes(Join(texts))}} : TRUE

\* app.py:416-433: the cleaned response is saved when it is not empty
SavesLlm(nm, lines) == nm = LlmStage /\ SaveResponse(Texts(nm, lines)).written

\* app.py:371-372 and 387-435: readline returns b"" (the process closed its output,
\* with exit status code), the raw output is saved and the final metrics parsed
SeqEof(code) ==
    /\ pc = "read"
    /\ ~deleted
    /\ \/ code = 0 /\ Len(output_lines) = Prints(commands[si], llmCmd) /\ faults' = faults
       \/ code = 1 /\ faults < MaxFaults /\ faults' = faults + 1
    /\ rc' = code
    /\ stageFile' = [stageFile EXCEPT ![commands[si]] = output_lines]
    /\ llmResponse' = IF SavesLlm(commands[si], output_lines) THEN output_lines
                      ELSE llmResponse
    /\ \E st0 \in {[SeqState EXCEPT
                       !.pc = IF SavesLlm(commands[si], output_lines) THEN "pubSaved"
                              ELSE TerminalPc(FALSE),
                       !.run_metrics = ParseFinal(run_metrics, commands[si],
                                                  output_lines)]} :
           \E st \in {Run(st0)} : SetSeq(st)
    /\ UNCHANGED <<callVars, labelVars>>
    /\ UNCHANGED <<vstate, envVars, askVars, metricsJson, metricsWrites, gpuLog, sample,
                   polLast>>

\* app.py:388-389 raises after readline returned b"" (the raw output file cannot
\* be written, or its directory is not there any more)
SeqSaveError ==
    /\ pc = "read"
    /\ Len(output_lines) = Prints(commands[si], llmCmd)
    /\ deleted \/ faults < MaxFaults
    /\ faults' = IF deleted THEN faults ELSE faults + 1
    /\ rc' = 0
    /\ \E st0 \in {[SeqState EXCEPT !.pc = TerminalPc(TRUE)]} :
           \E st \in {Run(st0)} : SetSeq(st)
    /\ UNCHANGED <<callVars, labelVars>>
    /\ UNCHANGED <<vstate, envVars, askVars, storeVars, gpuLog, sample, polLast>>

\* app.py:431-432 raises (llm_response.txt cannot be written): the raw output is
\* saved and the metrics parsed already
SeqLlmSaveError ==
    /\ pc = "read"
    /\ Len(output_lines) = Prints(commands[si], llmCmd)
    /\ SavesLlm(commands[si], output_lines)
    /\ ~deleted
    /\ faults < MaxFaults
    /\ faults' = faults + 1
    /\ rc' = 0
    /\ stageFile' = [stageFile EXCEPT ![commands[si]] = output_lines]
    /\ \E st0 \in {[SeqState EXCEPT
                       !.pc = TerminalPc(TRUE),
                       !.run_metrics = ParseFinal(run_metrics, commands[si],
                                                  output_lines)]} :
           \E st \in {Run(st0)} : SetSeq(st)
    /\ UNCHANGED <<callVars, labelVars>>
    /\ UNCHANGED <<vstate, envVars, askVars, llmResponse, metricsJson, metricsWrites,
                   gpuLog, sample, polLast>>

\* app.py:444-447: await gpu_monitor_task returns or raises CancelledError
SeqAwaitPoller ==
    /\ pc = "awaitPoller"
    /\ ppc = "done"
    /\ pc' = "saveMetrics"
    /\ UNCHANGED <<callVars, labelVars>>
    /\ UNCHANGED <<vstate, envVars, askVars, commands, llmCmd, si, output_lines, rc,
                   run_metrics, ev, runLog, storeVars, pollVars, worldVars, faults>>

\* app.py:450-469: json.dump(run_metrics) into metrics.json, the summary, the finish
SeqSaveMetrics ==
    /\ pc = "saveMetrics"
    /\ ~deleted
    /\ metricsJson' = run_metrics
    /\ metricsWrites' = metricsWrites + 1
    /\ \E st0 \in {[SeqState EXCEPT !.pc = "pubMetricsSaved"]} :
           \E st \in {Run(st0)} : SetSeq(st)
    /\ UNCHANGED <<callVars, labelVars>>
    /\ UNCHANGED <<vstate, envVars, askVars, rc, stageFile, llmResponse, gpuLog, sample,
                   polLast, faults>>

\* app.py:452-456: opening or writing metrics.json raises (its directory is not
\* there any more, or another failure)
SeqSaveMetricsError ==
    /\ pc = "saveMetrics"
    /\ deleted \/ faults < MaxFaults
    /\ faults' = IF deleted THEN faults ELSE faults + 1
    /\ \E st0 \in {[SeqState EXCEPT !.pc = "pubMetricsFailed"]} :
           \E st \in {Run(st0)} : SetSeq(st)
    /\ UNCHANGED <<callVars, labelVars>>
    /\ UNCHANGED <<vstate, envVars, askVars, rc, storeVars, gpuLog, sample, polLast>>

\* ------------------------------------------------------ the query interface
\* app.py:111: content.split('\n')

RECURSIVE Split(_)
Split(content) ==
    IF ~Has(content, "\n") THEN <<content>>
    ELSE <<SubSeq(content, 1, Search(content, <<"\n">>) - 1)>>
         \o Split(SubSeq(content, Search(content, <<"\n">>) + 1, Len(content)))

\* the lines get_runs reads from <StageName>.txt
FileLines(nm, file) == Split(Join(Texts(nm, file)))

\* app.py:103-125: every .txt file of the directory is parsed, whether metrics.json
\* was loaded or not, and its values are stored over the ones in run_info
FromTextFiles(info, files) ==
    [info EXCEPT
       !.cpu1Thread =
           IF files["CPU 1 thread"] = None THEN @
           ELSE Get(parse_sysbench_cpu(FileLines("CPU 1 thread", files["CPU 1 thread"]),
                                       1, NoMetrics), "events_per_second", 0),
       !.cpuAllThreads =
           IF files["CPU all threads"] = None THEN @
           ELSE Get(parse_sysbench_cpu(FileLines("CPU all threads",
                                                 files["CPU all threads"]),
                                       1, NoMetrics), "events_per_second", 0),
       !.memRead =
           IF files["Memory test"] = None THEN @
           ELSE MemoryFields(info, FileLines("Memory test", files["Memory test"])).memRead,
       !.memWrite =
           IF files["Memory test"] = None THEN @
           ELSE MemoryFields(info, FileLines("Memory test", files["Memory test"])).memWrite,
       !.diskRead =
           IF files["Disk test"] = None THEN @
           ELSE DiskFields(info, FileLines("Disk test", files["Disk test"])).diskRead,
       !.diskWrite =
           IF files["Disk test"] = None THEN @
           ELSE DiskFields(info, FileLines("Disk test", files["Disk test"])).diskWrite]

\* app.py:82-127: the entry of get_runs for the directory of the run: the defaults,
\* updated from metrics.json when it exists, then from the text files
get_runs ==
    FromTextFiles(IF metricsWrites > 0 THEN metricsJson ELSE EmptyMetrics, stageFile)

\* ----------------------------------------------------- the telemetry poller
\* the broadcast calls of monitor_gpu_during_benchmark (app.py:497, 505, 510, 513)
PollPubPcs == {"pubSample", "pubFail", "pubStopped", "pubError"}

PollEvent(at) ==
    CASE at = "pubSample" -> "sample"
      [] at = "pubFail" -> "queryFailed"
      [] at = "pubStopped" -> "stopped"
      [] at = "pubError" -> "error"

\* the await after the poller's broadcast call: the sleep of app.py:507 after a
\* sample or a failed query; the two handlers end the task (app.py:509-513)
PollNextPc(at) == IF at \in {"pubSample", "pubFail"} THEN "sleep" ELSE "done"

\* The result of the query: the exit status and the fields of
\* stdout.decode().strip().split(','), none when stdout is empty.  A field is a
\* number, the sentinel [N/A], or other text.
FieldValues == {Num(1), Tok("[N/A]"), Tok("text")}
Queries == [returncode : {0, 1},
            gpu_data : UNION {[1..n -> FieldValues] : n \in 0..MaxFields}]

\* app.py:488-505: what the poller makes of the result of the query.  float() of a
\* field that is not a number raises ValueError, which app.py:502-503 passes over.
ParseQuery(q) ==
    IF q.returncode = 0 /\ q.gpu_data # <<>>
    THEN IF Len(q.gpu_data) >= 4 /\ \A i \in 1..4 : q.gpu_data[i].k = "num"
         THEN [kind |-> "sample", fields |-> [i \in 1..4 |-> q.gpu_data[i].v]]
         ELSE [kind |-> "skipped", fields |-> <<>>]
    ELSE [kind |-> "failed", fields |-> <<>>]

\* the results the query gives during a run: a reading of the four values, a
\* reading without a temperature, and a failing exit
GoodQuery == [returncode |-> 0, gpu_data |-> <<Num(1), Num(1), Num(1), Num(1)>>]
NaQuery == [returncode |-> 0, gpu_data |-> <<Tok("[N/A]"), Num(1), Num(1), Num(1)>>]
FailedQuery == [returncode |-> 1, gpu_data |-> <<>>]

\* app.py:500-501: f.write(f"{now},{temp},{util},{mem_used},{mem_total}\n") in
\* append mode, after the sample event
SampleLine(ts, smp) == <<Num(ts)>> \o [i \in 1..Len(smp) |-> Num(smp[i])] \o <<Tok("\n")>>
AppendSampleCut(log, smp) == Append(log, <<Num(Len(log) + 1)>>)
AppendSample(log, smp) == Append(log, SampleLine(Len(log) + 1, smp))

\* the poller after a run of its broadcast call `at`, which left the viewers' side
\* w; `last` is the kind of the last event it published.  When the sample event is
\* out and runs/<label> is not there, open(..., "a") (app.py:500) raises
\* FileNotFoundError, which `except Exception` (app.py:512-513) reports.
PollAfter(w, at, smp, last) ==
    IF ~w.bc["poll"].busy /\ at = "pubSample" /\ deleted
    THEN \E w2 \in {BeginBroadcast(w, "poll", w.lastKey["poll"] + 1)} :
             /\ SetWorld(w2)
             /\ ppc' = IF w2.bc["poll"].busy THEN "pubError" ELSE PollNextPc("pubError")
             /\ gpuLog' = gpuLog
             /\ sample' = <<>>
             /\ polLast' = PollEvent("pubError")
    ELSE /\ SetWorld(w)
         /\ polLast' = last
         /\ IF w.bc["poll"].busy
            THEN ppc' = at /\ gpuLog' = gpuLog /\ sample' = smp
            ELSE /\ ppc' = PollNextPc(at)
                 /\ gpuLog' = IF at = "pubSample" THEN AppendSample(gpuLog, smp)
                              ELSE gpuLog
                 /\ sample' = <<>>

\* the poller calls broadcast at `at`
PollPublish(at, smp) ==
    PollAfter(BeginBroadcast(World, "poll", lastKey["poll"] + 1), at, smp, PollEvent(at))

\* app.py:474-480: the task starts and reaches its first await
PollStart ==
    /\ ppc = "init"
    /\ ~cancelPending
    /\ ppc' = "launch"
    /\ UNCHANGED <<callVars, labelVars>>
    /\ UNCHANGED <<vstate, envVars, seqVars, storeVars, gpuLog, sample, cancelPending,
                   cancelRequested, polLast, worldVars, faults>>

\* app.py:480-486: create_subprocess_shell returns
PollLaunch ==
    /\ ppc = "launch"
    /\ ~cancelPending
    /\ ppc' = "query"
    /\ UNCHANGED <<callVars, labelVars>>
    /\ UNCHANGED <<vstate, envVars, seqVars, storeVars, gpuLog, sample, cancelPending,
                   cancelRequested, polLast, worldVars, faults>>

\* app.py:480-484 raises: `except Exception` (app.py:512-513) reports it and the
\* task ends
PollLaunchError ==
    /\ ppc = "launch"
    /\ ~cancelPending
    /\ faults < MaxFaults
    /\ faults' = faults + 1
    /\ PollPublish("pubError", <<>>)
    /\ UNCHANGED <<callVars, labelVars>>
    /\ UNCHANGED <<vstate, envVars, seqVars, storeVars, cancelPending,
                   cancelRequested>>

\* app.py:486-501: communicate returns a result with four numeric fields
PollQuerySample ==
    /\ ppc = "query"
    /\ ~cancelPending
    /\ Len(gpuLog) < MaxSamples
    /\ ParseQuery(GoodQuery).kind = "sample"
    /\ PollPublish("pubSample", ParseQuery(GoodQuery).fields)
    /\ UNCHANGED <<callVars, labelVars>>
    /\ UNCHANGED <<vstate, envVars, seqVars, storeVars, cancelPending,
                   cancelRequested, faults>>

\* app.py:488, 504-505: non-zero exit or empty output
PollQueryFailed ==
    /\ ppc = "query"
    /\ ~cancelPending
    /\ faults < MaxFaults
    /\ faults' = faults + 1
    /\ ParseQuery(FailedQuery).kind = "failed"
    /\ PollPublish("pubFail", <<>>)
    /\ UNCHANGED <<callVars, labelVars>>
    /\ UNCHANGED <<vstate, envVars, seqVars, storeVars, cancelPending,
                   cancelRequested>>

\* app.py:490-503: fewer than four fields, or a field float() rejects (ValueError):
\* nothing is published or appended
PollQuerySkipped ==
    /\ ppc = "query"
    /\ ~cancelPending
    /\ ParseQuery(NaQuery).kind = "skipped"
    /\ ppc' = "sleep"
    /\ UNCHANGED <<callVars, labelVars>>
    /\ UNCHANGED <<vstate, envVars, seqVars, storeVars, gpuLog, sample, cancelPending,
                   cancelRequested, polLast, worldVars, faults>>

\* app.py:258: the pending send of the poller's broadcast call completes or raises
PollResume ==
    /\ CanResume("poll")
    /\ ~cancelPending
    /\ PollAfter(ResumeBroadcast(World, "poll"), ppc, sample, polLast)
    /\ UNCHANGED <<callVars, labelVars>>
    /\ UNCHANGED <<vstate, envVars, seqVars, storeVars, cancelPending,
                   cancelRequested, faults>>

\* app.py:507: the 2-second sleep ends
PollSleep ==
    /\ ppc = "sleep"
    /\ ~cancelPending
    /\ ppc' = "launch"
    /\ UNCHANGED <<callVars, labelVars>>
    /\ UNCHANGED <<vstate, envVars, seqVars, storeVars, gpuLog, sample, cancelPending,
                   cancelRequested, polLast, worldVars, faults>>

\* CancelledError is raised at the await the poller is suspended at, outside
\* broadcast (app.py:480, 486, 507): the handler of app.py:509-511 publishes the
\* stop event and re-raises
PollCancelled ==
    /\ cancelPending
    /\ ~Parked("poll")
    /\ ppc \in {"launch", "query", "sleep"}
    /\ cancelPending' = FALSE
    /\ PollPublish("pubStopped", <<>>)
    /\ UNCHANGED <<callVars, labelVars>>
    /\ UNCHANGED <<vstate, envVars, seqVars, storeVars, cancelRequested, faults>>

\* CancelledError is raised at the send_text the poller is suspended at, inside
\* broadcast (app.py:258): the bare `except:` of app.py:259 handles it, and the
\* poller goes on from the broadcast call
PollCancelledInBroadcast ==
    /\ cancelPending
    /\ Parked("poll")
    /\ cancelPending' = FALSE
    /\ PollAfter(CancelledBroadcast(World, "poll"), ppc, sample, polLast)
    /\ UNCHANGED <<callVars, labelVars>>
    /\ UNCHANGED <<vstate, envVars, seqVars, storeVars, cancelRequested, faults>>

\* ------------------------------------------------------------ the system
\* the process after the module was loaded: no connection, no run
Loaded ==
    /\ clients = <<>>
    /\ vstate = [v \in Viewers |-> "new"]
    /\ gpu_available \in BOOLEAN
    /\ ollama_available \in BOOLEAN
    /\ deleted = FALSE
    /\ options = [gpu |-> FALSE, ollama |-> FALSE, model |-> ""]
    /\ pc = "idle"
    /\ commands = <<>>
    /\ llmCmd = NoCmd
    /\ resolved = "none"
    /\ si = 0
    /\ output_lines = <<>>
    /\ rc = -1
    /\ run_metrics = EmptyMetrics
    /\ stageFile = [nm \in StageNames |-> None]
    /\ llmResponse = None
    /\ metricsJson = None
    /\ metricsWrites = 0
    /\ gpuLog = <<>>
    /\ sample = <<>>
    /\ ppc = "none"
    /\ cancelPending = FALSE
    /\ cancelRequested = FALSE
    /\ bc = [s \in Sources |-> IdleBc]
    /\ lastKey = [s \in Sources |-> 0]
    /\ lastRecv = [v \in Viewers |-> NoRecv]
    /\ late = [s \in Sources |-> {}]
    /\ removed = {}
    /\ ev = [nm \in StageNames |-> NoEvents]
    /\ runLog = <<>>
    /\ polLast = "none"
    /\ faults = 0

NoCall == [fn |-> "none", arg |-> <<>>]
NoRet == [done |-> FALSE, val |-> <<>>, n |-> 0]

Init ==
    /\ Loaded
    /\ call = NoCall
    /\ ret = NoRet
    /\ tasks = <<>>
    /\ runDirs = <<>>

ViewerStep ==
    \E v \in Viewers :
        \/ Connect(v)
        \/ Stall(v)
        \/ Unstall(v)
        \/ Drop(v)
        \/ Disconnect(v)
        \/ \E g \in BOOLEAN, o \in BOOLEAN :
               \E m \in (IF o THEN Models ELSE {""}) : StartRun(v, g, o, m)

SeqStep ==
    \/ SeqBegin
    \/ SeqBeginError
    \/ \E result \in ListResults : SeqListModels(result)
    \/ \E result \in PullResults : SeqPull(result)
    \/ SeqResume
    \/ SeqLaunch
    \/ SeqLaunchError
    \/ SeqReadLine
    \/ SeqReadError
    \/ \E code \in {0, 1} : SeqEof(code)
    \/ SeqSaveError
    \/ SeqLlmSaveError
    \/ SeqAwaitPoller
    \/ SeqSaveMetrics
    \/ SeqSaveMetricsError

PollStep ==
    \/ PollStart
    \/ PollLaunch
    \/ PollLaunchError
    \/ PollQuerySample
    \/ PollQueryFailed
    \/ PollQuerySkipped
    \/ PollResume
    \/ PollSleep
    \/ PollCancelled
    \/ PollCancelledInBroadcast

Next == ViewerStep \/ SeqStep \/ PollStep

Spec == Init /\ [][Next]_vars

\* The system when nothing fails: no command, query or write raises, every command
\* runs to its end, no viewer goes away.  Every await of a task completes: a ready
\* task is run by the event loop, a started process ends, a viewer that stopped
\* reading reads again.
QuietViewerStep ==
    \E v \in Viewers :
        \/ Connect(v)
        \/ Stall(v)
        \/ Unstall(v)
        \/ \E g \in BOOLEAN, o \in BOOLEAN :
               \E m \in (IF o THEN Models ELSE {""}) : StartRun(v, g, o, m)

QuietSeqStep ==
    \/ SeqBegin
    \/ SeqListModels("listed")
    \/ SeqListModels("empty")
    \/ SeqPull("pullOk")
    \/ SeqLaunch
    \/ SeqReadLine
    \/ SeqEof(0)
    \/ SeqAwaitPoller
    \/ SeqSaveMetrics

QuietPollStep ==
    \/ PollStart
    \/ PollLaunch
    \/ PollQuerySample
    \/ PollQuerySkipped
    \/ PollSleep
    \/ PollCancelled
    \/ PollCancelledInBroadcast

FairNext == QuietViewerStep \/ QuietSeqStep \/ SeqResume \/ QuietPollStep \/ PollResume

FairSpec ==
    /\ Init
    /\ [][FairNext]_vars
    /\ WF_vars(QuietSeqStep)
    /\ SF_vars(SeqResume)
    /\ WF_vars(QuietPollStep)
    /\ SF_vars(PollResume)
    /\ \A v \in Viewers : WF_vars(Unstall(v))

\* ------------------------------------------- a run whose directory is deleted
\* delete_run, app.py:146-154 (and delete_all_runs, app.py:136-138):
\* shutil.rmtree removes runs/<label> with every file in it while the task of
\* run_benchmark for that label is between two of its steps
DeleteRun ==
    /\ ~deleted
    /\ pc \notin {"idle", "created", "crashed", "done"}
    /\ deleted' = TRUE
    /\ stageFile' = [nm \in StageNames |-> None]
    /\ llmResponse' = None
    /\ metricsJson' = None
    /\ gpuLog' = <<>>
    /\ UNCHANGED <<callVars, labelVars>>
    /\ UNCHANGED <<vstate, gpu_available, ollama_available, seqVars, metricsWrites,
                   sample, ppc, cancelPending, cancelRequested, polLast, worldVars,
                   faults>>

\* the steps of run_benchmark that raise because runs/<label> is not there:
\* app.py:360-365 (cwd=run_dir), app.py:388 and app.py:452 (open for writing)
GoneSeqStep ==
    \/ deleted /\ SeqLaunchError
    \/ deleted /\ SeqSaveError
    \/ deleted /\ SeqSaveMetricsError

\* the viewers of such a run: they connect, stop reading and read again, and one
\* of them starts the run, with or without telemetry
DeleteViewerStep ==
    \E v \in Viewers :
        \/ Connect(v)
        \/ Stall(v)
        \/ Unstall(v)
        \/ \E g \in BOOLEAN : StartRun(v, g, FALSE, "")

\* the steps of run_benchmark without the LLM stage, when nothing fails
PlainSeqStep ==
    \/ SeqBegin
    \/ SeqLaunch
    \/ SeqReadLine
    \/ SeqEof(0)
    \/ SeqAwaitPoller
    \/ SeqSaveMetrics

DeleteNext ==
    \/ DeleteViewerStep
    \/ PlainSeqStep
    \/ SeqResume
    \/ QuietPollStep
    \/ PollResume
    \/ DeleteRun
    \/ GoneSeqStep

\* a host with a GPU and without the LLM runtime
GpuHostInit == Init /\ gpu_available /\ ~ollama_available

\* The system when nothing fails but the deletion: the request handlers and the
\* tasks are run by the same event loop, and every await of a task completes.
DeleteSpec ==
    /\ GpuHostInit
    /\ [][DeleteNext]_vars
    /\ WF_vars(PlainSeqStep)
    /\ WF_vars(GoneSeqStep)
    /\ SF_vars(SeqResume)
    /\ WF_vars(QuietPollStep)
    /\ SF_vars(PollResume)
    /\ \A v \in Viewers : WF_vars(Unstall(v))

\* ------------------------------------------- a run whose initiator goes away
\* The first viewer sends the run command (websocket_endpoint, app.py:227-248:
\* asyncio.create_task(run_benchmark(label, options, ws)) and the handler goes
\* back to receive_text); any viewer, this one included, may go away during the
\* run (app.py:249-252, 259-264).
LeaveViewerStep ==
    \/ \E v \in Viewers :
           \/ Connect(v)
           \/ Stall(v)
           \/ Unstall(v)
           \/ Drop(v)
           \/ Disconnect(v)
    \/ \E g \in BOOLEAN : StartRun(1, g, FALSE, "")

LeaveNext ==
    \/ LeaveViewerStep
    \/ PlainSeqStep
    \/ SeqResume
    \/ QuietPollStep
    \/ PollResume

\* The system when nothing fails but the viewers' connections
LeaveSpec ==
    /\ GpuHostInit
    /\ [][LeaveNext]_vars
    /\ WF_vars(PlainSeqStep)
    /\ SF_vars(SeqResume)
    /\ WF_vars(QuietPollStep)
    /\ SF_vars(PollResume)
    /\ \A v \in Viewers : WF_vars(Unstall(v))

\* ------------------------------------------- the extraction functions alone
\* One call of an extraction function on an argument drawn from a bounded set of
\* outputs: the poller's reading of a query result, and the memory fields of the
\* record from the output of the memory test.

\* lines a memory test can be given to print: a rate "<n> MiB/sec" or none, with
\* or without "transferred", with or without a word that has "read" in it
MemoryTexts ==
    {<<Tok("text")>>}
    \cup {<<Num(a), Tok("MiB"), Tok("transferred")>> : a \in 1..MaxRate}
    \cup {<<Num(a), Tok("MiB/sec")>> : a \in 1..MaxRate}
    \cup {<<Tok("read"), Num(a), Tok("MiB/sec")>> : a \in 1..MaxRate}
    \cup {<<Tok("transferred"), Tok("("), Num(a), Tok("MiB/sec")>> : a \in 1..MaxRate}
    \cup {<<Tok("read"), Tok("transferred"), Tok("("), Num(a), Tok("MiB/sec")>> :
              a \in 1..MaxRate}
MemoryOutputs == UNION {[1..n -> MemoryTexts] : n \in 0..MaxOutput}

\* ---- the parsers of data_parser.py
\* a whole number (digits), as the telemetry patterns \d+ take it
Whole(n) == [k |-> "int", v |-> n]

\* data_parser.py:165-175: the dict parse_gpu_metrics starts from
GpuReadings == [temperature_readings |-> <<>>, utilization_readings |-> <<>>,
                memory_used_readings |-> <<>>, memory_total_readings |-> <<>>,
                timestamps |-> <<>>]

\* data_parser.py:178-186: 'Temperature:\s+(\d+)°C', and the timestamp '\[(.*?)\]'
GpuTemperature(m, text) ==
    IF Search(text, <<"Temperature:", "int", "°C">>) = 0 THEN m
    ELSE [m EXCEPT
            !.temperature_readings =
                Append(@, text[Search(text, <<"Temperature:", "int", "°C">>) + 1].v),
            !.timestamps =
                IF Search(text, <<"[", "int", "]">>) = 0 THEN @
                ELSE Append(@, text[Search(text, <<"[", "int", "]">>) + 1].v)]

\* data_parser.py:188-191: 'Utilization:\s+(\d+)%'
GpuUtilization(m, text) ==
    IF Search(text, <<"Utilization:", "int", "%">>) = 0 THEN m
    ELSE [m EXCEPT !.utilization_readings =
                       Append(@, text[Search(text, <<"Utilization:", "int", "%">>) + 1].v)]

\* data_parser.py:193-197: "GPU Memory:" in line and 'Memory:\s+(\d+)/(\d+)\s+MB'
GpuMemory(m, text) ==
    IF Search(text, <<"GPU Memory:", "int", "/", "int", "MB">>) = 0 THEN m
    ELSE [m EXCEPT
            !.memory_used_readings =
                Append(@, text[Search(text, <<"GPU Memory:", "int", "/", "int", "MB">>)
                               + 1].v),
            !.memory_total_readings =
                Append(@, text[Search(text, <<"GPU Memory:", "int", "/", "int", "MB">>)
                               + 3].v)]

\* data_parser.py:177-197: `for line in log_lines`, from line i on
RECURSIVE GpuLines(_, _, _)
GpuLines(log_lines, i, m) ==
    IF i > Len(log_lines) THEN m
    ELSE GpuLines(log_lines, i + 1,
                  GpuMemory(GpuUtilization(GpuTemperature(m, log_lines[i]), log_lines[i]),
                            log_lines[i]))

\* sum(values) and sorted(values)
RECURSIVE Sum(_)
Sum(values) == IF values = <<>> THEN 0 ELSE Head(values) + Sum(Tail(values))
Occurs(values, x) == Cardinality({i \in 1..Len(values) : values[i] = x})
Sorted(values) ==
    CHOOSE s \in [1..Len(values) -> Range(values)] :
        /\ \A i \in 1..(Len(values) - 1) : s[i] <= s[i + 1]
        /\ \A x \in Range(values) : Occurs(s, x) = Occurs(values, x)

\* data_parser.py:232-248, for at most 20 values; a quotient a / b is <<a, b>>
calculate_summary_stats(values) ==
    IF values = <<>> THEN <<>>
    ELSE <<[count |-> Len(values),
            min |-> Sorted(values)[1],
            max |-> Sorted(values)[Len(values)],
            mean |-> <<Sum(values), Len(values)>>,
            median |-> IF Len(values) % 2 = 1
                       THEN <<Sorted(values)[Len(values) \div 2 + 1], 1>>
                       ELSE <<Sorted(values)[Len(values) \div 2]
                              + Sorted(values)[Len(values) \div 2 + 1], 2>>,
            p95 |-> Sorted(values)[Len(values)],
            p99 |-> Sorted(values)[Len(values)]]>>

\* data_parser.py:163-204
parse_gpu_metrics(log_lines, metrics) ==
    [readings |-> GpuLines(log_lines, 1, metrics),
     temperature_summary |->
         calculate_summary_stats(GpuLines(log_lines, 1, metrics).temperature_readings),
     utilization_summary |->
         calculate_summary_stats(GpuLines(log_lines, 1, metrics).utilization_readings),
     memory_summary |->
         calculate_summary_stats(GpuLines(log_lines, 1, metrics).memory_used_readings)]

\* lines given to the parsers: what the tools print, a line of other text, and
\* for the cpu test a line with the number before the words
CpuTexts ==
    {<<Tok("text")>>}
    \cup {<<Tok("events per second"), Tok(":"), Num(a)>> : a \in 1..MaxRate}
    \cup {<<Num(a), Tok("events per second")>> : a \in 1..MaxRate}
DiskTexts ==
    {<<Tok("text")>>}
    \cup {<<Tok("read, MiB/s"), Tok(":"), Num(a)>> : a \in 1..MaxRate}
    \cup {<<Tok("written, MiB/s"), Tok(":"), Num(a)>> : a \in 1..MaxRate}
GpuTexts ==
    {<<Tok("text")>>}
    \cup {<<Tok("["), Whole(a), Tok("]"), Tok("Temperature:"), Whole(a), Tok("°C")>> :
              a \in 1..MaxRate}
    \cup {<<Tok("Utilization:"), Whole(a), Tok("%")>> : a \in 1..MaxRate}
    \cup {<<Tok("GPU Memory:"), Whole(a), Tok("/"), Whole(MaxRate), Tok("MB")>> :
              a \in 1..MaxRate}
Outputs(texts) == UNION {[1..n -> texts] : n \in 0..MaxOutput}

ParserFns == {"parse_sysbench_cpu", "parse_sysbench_memory", "parse_sysbench_disk",
              "parse_gpu_metrics"}
ParserTexts(fn) ==
    CASE fn = "parse_sysbench_cpu" -> CpuTexts
      [] fn = "parse_sysbench_memory" -> MemoryTexts
      [] fn = "parse_sysbench_disk" -> DiskTexts
      [] fn = "parse_gpu_metrics" -> GpuTexts

\* data_parser.py:15, 64, 113, 165: every call starts from a new dict; r is what
\* the call before it returned
FreshMetricsKept(r, empty) == IF r.n = 0 THEN empty ELSE r.val
FreshMetrics(r, empty) == empty

\* the dict a call of fn on output starts from, and the one it returns
Started(fn, r) ==
    IF fn = "parse_gpu_metrics"
    THEN FreshMetrics([r EXCEPT !.val = IF r.n = 0 THEN GpuReadings ELSE r.val.readings],
                      GpuReadings)
    ELSE FreshMetrics(r, NoMetrics)
Parse(fn, output, metrics) ==
    CASE fn = "parse_sysbench_cpu" -> parse_sysbench_cpu(output, 1, metrics)
      [] fn = "parse_sysbench_memory" -> parse_sysbench_memory(output, 1, metrics)
      [] fn = "parse_sysbench_disk" -> parse_sysbench_disk(output, 1, metrics)
      [] fn = "parse_gpu_metrics" -> parse_gpu_metrics(output, metrics)

\* an output parsed before the call that is looked at: every line of the tool
PriorOutput(fn) ==
    CASE fn = "parse_sysbench_cpu" -> <<<<Tok("events per second"), Tok(":"), Num(1)>>>>
      [] fn = "parse_sysbench_memory" ->
             <<<<Tok("transferred"), Tok("("), Num(1), Tok("MiB/sec")>>,
               <<Tok("transferred"), Tok("("), Num(1), Tok("MiB/sec")>>>>
      [] fn = "parse_sysbench_disk" ->
             <<<<Tok("read, MiB/s"), Tok(":"), Num(1)>>,
               <<Tok("written, MiB/s"), Tok(":"), Num(1)>>>>
      [] fn = "parse_gpu_metrics" ->
             <<<<Tok("["), Whole(1), Tok("]"), Tok("Temperature:"), Whole(1), Tok("°C")>>>>

\* ---- the output of the LLM stage
\* lines `ollama run` prints, as app.py:373 strips them: none, text, a colour code
\* (ESC [ 0 m), a reverse index (ESC M) before text, a cursor save (ESC 7: ESC and
\* a digit), and two colour codes with a blank between them
LlmTexts ==
    {<<>>,
     <<Tok("m")>>,
     <<Tok("ESC"), Tok("["), Tok("0"), Tok("m")>>,
     <<Tok("ESC"), Tok("M"), Tok("m")>>,
     <<Tok("ESC"), Tok("0")>>,
     <<Tok("ESC"), Tok("["), Tok("m"), Tok(" "), Tok("ESC"), Tok("["), Tok("m")>>}
Responses == UNION {[1..n -> LlmTexts] : n \in 0..MaxResponse}

\* ---- the run command (app.py:227-245)
\* data.split(sep): the pieces of text between the tokens sep
RECURSIVE SplitOn(_, _)
SplitOn(text, sep) ==
    IF ~Has(text, sep) THEN <<text>>
    ELSE <<SubSeq(text, 1, Search(text, <<sep>>) - 1)>>
         \o SplitOn(SubSeq(text, Search(text, <<sep>>) + 1, Len(text)), sep)

\* part.startswith(key), for a key that ends in '=' and is one token of the text
StartsWith(part, key) == part # <<>> /\ part[1].k = key

\* app.py:238-245: the options after parts[i..], each later part overriding
RECURSIVE ParseOptions(_, _, _)
ParseOptions(parts, i, opts) ==
    IF i > Len(parts) THEN opts
    ELSE ParseOptions(parts, i + 1,
             IF StartsWith(parts[i], "gpu=")
             THEN [opts EXCEPT !.gpu = (Tail(parts[i]) = <<Tok("true")>>)]
             ELSE IF StartsWith(parts[i], "ollama=")
             THEN [opts EXCEPT !.ollama = (Tail(parts[i]) = <<Tok("true")>>)]
             ELSE IF StartsWith(parts[i], "model=")
             THEN [opts EXCEPT !.model = Tail(parts[i])]
             ELSE opts)

\* app.py:228-245: label and options of the message data, which starts with "run:"
ParseRun(data) ==
    [label |-> SplitOn(data, ":")[2],
     options |-> ParseOptions(SplitOn(data, ":"), 3,
                              [gpu |-> FALSE, ollama |-> FALSE, model |-> <<>>])]

\* The commands the viewers send: run:<label>, then gpu=<v>, ollama=<v> and
\* model=<name> or not, with ':' between them.  A name is a model as `ollama list`
\* prints it, with or without a tag after ':'.
LabelTexts == {<<Tok("box1")>>, <<Tok("rack-2")>>}
ModelTexts == {<<Tok("mistral")>>, <<Tok("llama3.1"), Tok(":"), Tok("8b")>>}
Given == {"absent", "true", "false"}
RunCommands == [label : LabelTexts, gpu : Given, ollama : Given,
                model : {<<>>} \cup ModelTexts]
Flag(key, v) == IF v = "absent" THEN <<>> ELSE <<Tok(":"), Tok(key), Tok(v)>>
CommandText(c) ==
    <<Tok("run"), Tok(":")>> \o c.label \o Flag("gpu=", c.gpu) \o Flag("ollama=", c.ollama)
    \o (IF c.model = <<>> THEN <<>> ELSE <<Tok(":"), Tok("model=")>> \o c.model)

\* ---- the summary of a run (app.py:459-469)
\* what the stages can be given to print before the summary: the result line of
\* "CPU all threads", the lines of the memory test (a rate may be 0.00), the two
\* result lines of the disk test
SummaryCpuTexts ==
    {<<Tok("text")>>, <<Tok("events per second"), Tok(":"), Num(1)>>,
     <<Num(1), Tok("events per second")>>}
SummaryMemoryTexts ==
    {<<Tok("text")>>}
    \cup {<<Num(9), Tok("MiB"), Tok("transferred"), Tok("("), Num(a), Tok("MiB/sec"),
            Tok(")")>> : a \in 0..MaxRate}
SummaryDiskOutputs ==
    {<<>>, <<<<Tok("read, MiB/s"), Tok(":"), Num(4)>>,
             <<Tok("written, MiB/s"), Tok(":"), Num(5)>>>>}
SummaryInputs ==
    [cpu : SummaryCpuTexts,
     memory : UNION {[1..n -> SummaryMemoryTexts] : n \in 0..MaxOutput},
     disk : SummaryDiskOutputs]

\* app.py:378-385 and 392-399: the record of a run whose stages printed arg
SummaryRecord(arg) ==
    DiskFields(MemoryFields([EmptyMetrics EXCEPT !.cpuAllThreads = RealtimeCpu(arg.cpu)],
                            arg.memory),
               arg.disk)

\* app.py:460-469: the broadcast calls that follow the one at p, for the record m
RECURSIVE SummaryFrom(_, _)
SummaryFrom(p, m) ==
    IF p = "pubFinished" THEN <<>>
    ELSE <<AfterSummary([pc |-> p, run_metrics |-> m])>>
         \o SummaryFrom(AfterSummary([pc |-> p, run_metrics |-> m]), m)

Calls ==
    [fn : {"query"}, arg : Queries] \cup [fn : {"memory"}, arg : MemoryOutputs]
    \cup [fn : {"command"}, arg : RunCommands]
    \cup UNION {[fn : {f}, arg : Outputs(ParserTexts(f))] : f \in ParserFns}
    \cup [fn : {"clean_ansi_codes"}, arg : Responses]
    \cup [fn : {"summary"}, arg : SummaryInputs]

ExtractInit ==
    /\ Loaded
    /\ ~gpu_available /\ ~ollama_available
    /\ call \in Calls
    /\ ret = NoRet
    /\ tasks = <<>>
    /\ runDirs = <<>>

\* app.py:488-505 on the result call.arg
CallParseQuery ==
    /\ call.fn = "query"
    /\ ~ret.done
    /\ ret' = [done |-> TRUE, val |-> ParseQuery(call.arg), n |-> 1]
    /\ UNCHANGED <<engineVars, call, labelVars>>

\* app.py:392-395 on the output call.arg, into a fresh record
CallParseMemory ==
    /\ call.fn = "memory"
    /\ ~ret.done
    /\ ret' = [done |-> TRUE, val |-> MemoryFields(EmptyMetrics, call.arg), n |-> 1]
    /\ UNCHANGED <<engineVars, call, labelVars>>

\* app.py:227-245 on the message a viewer composed from call.arg
CallParseRun ==
    /\ call.fn = "command"
    /\ ~ret.done
    /\ ret' = [done |-> TRUE, val |-> ParseRun(CommandText(call.arg)), n |-> 1]
    /\ UNCHANGED <<engineVars, call, labelVars>>

\* app.py:427-432 on the lines call.arg of the LLM stage
CallClean ==
    /\ call.fn = "clean_ansi_codes"
    /\ ~ret.done
    /\ ret' = [done |-> TRUE, val |-> SaveResponse(call.arg), n |-> 1]
    /\ UNCHANGED <<engineVars, call, labelVars>>

\* a call of a parser on another output, before the first call on call.arg
CallPrior ==
    /\ call.fn \in ParserFns
    /\ ret.n = 0
    /\ ret' = [done |-> FALSE,
               val |-> Parse(call.fn, PriorOutput(call.fn), Started(call.fn, ret)),
               n |-> 1]
    /\ UNCHANGED <<engineVars, call, labelVars>>

\* a call of a parser of data_parser.py on the output call.arg
CallParser ==
    /\ call.fn \in ParserFns
    /\ ret.n < MaxCalls
    /\ ret' = [done |-> TRUE,
               val |-> Parse(call.fn, call.arg, Started(call.fn, ret)),
               n |-> ret.n + 1]
    /\ UNCHANGED <<engineVars, call, labelVars>>

\* app.py:459-469 on the record of a run whose stages printed call.arg
CallSummary ==
    /\ call.fn = "summary"
    /\ ~ret.done
    /\ ret' = [done |-> TRUE,
               val |-> [record |-> SummaryRecord(call.arg),
                        events |-> SummaryFrom("pubSummary", SummaryRecord(call.arg))],
               n |-> 1]
    /\ UNCHANGED <<engineVars, call, labelVars>>

ExtractNext ==
    \/ CallSummary
    \/ CallParseQuery
    \/ CallParseMemory
    \/ CallParseRun
    \/ CallPrior
    \/ CallParser
    \/ CallClean

ExtractSpec == ExtractInit /\ [][ExtractNext]_vars

\* ------------------------------------------------ run commands and labels
\* The run commands of the viewers and the directories runs/<label>: every command
\* creates a task of run_benchmark, which writes the files of its directory stage
\* by stage.  The tasks are suspended between these steps, so they interleave.
Labels == 1..NLabels
Files == Range(BaseCommands) \cup {"metrics.json"}
NoDir == [exists |-> FALSE, writer |-> [f \in Files |-> 0], metrics |-> <<>>,
          gpuLog |-> <<>>]

\* app.py:272-281: the RunRecord of a task, by stage: 0 before the stage has run
NoRecord == [nm \in Range(BaseCommands) |-> 0]

\* what the stage nm of task t prints: the value the record takes from it.  The
\* outputs of two tasks differ.
Output(t, nm) == t

\* app.py:378-414: run_metrics is a local of the call of run_benchmark that is task
\* t, and the stage stores into it
RecordedShared(ts, t, nm) ==
    [u \in DOMAIN ts |-> [ts[u] EXCEPT !.run_metrics[nm] = Output(t, nm)]]
Recorded(ts, t, nm) == [ts EXCEPT ![t].run_metrics[nm] = Output(t, nm)]

LabelInit ==
    /\ Loaded
    /\ ~ollama_available
    /\ call = NoCall
    /\ ret = NoRet
    /\ tasks = <<>>
    /\ runDirs = [l \in Labels |-> NoDir]

\* websocket_endpoint, app.py:227-248: "run:<label>..." is received and
\* asyncio.create_task(run_benchmark(label, options, ws)) is called
RunCommand(l, g) ==
    /\ Len(tasks) < MaxRuns
    /\ tasks' = Append(tasks, [label |-> l, gpu |-> g, at |-> "created", si |-> 0,
                               run_metrics |-> NoRecord, samples |-> 0])
    /\ UNCHANGED <<engineVars, callVars, runDirs>>

\* app.py:268-356: os.makedirs(run_dir, exist_ok=True), the record, the preamble
TaskBegin(t) ==
    /\ t \in DOMAIN tasks
    /\ tasks[t].at = "created"
    /\ tasks' = [tasks EXCEPT ![t].at = "stage", ![t].si = 1]
    /\ runDirs' = [runDirs EXCEPT ![tasks[t].label].exists = TRUE]
    /\ UNCHANGED <<engineVars, callVars>>

\* app.py:355-439: a stage runs and <StageName>.txt is written
TaskStage(t) ==
    /\ t \in DOMAIN tasks
    /\ tasks[t].at = "stage"
    /\ \E ts \in {Recorded(tasks, t, BaseCommands[tasks[t].si])} :
           tasks' = IF tasks[t].si < Len(BaseCommands)
                    THEN [ts EXCEPT ![t].si = @ + 1]
                    ELSE [ts EXCEPT ![t].at = "metrics"]
    /\ runDirs' = [runDirs EXCEPT
                     ![tasks[t].label].writer[BaseCommands[tasks[t].si]] = t]
    /\ UNCHANGED <<engineVars, callVars>>

\* app.py:472-507: the poller of task t, created at app.py:349 with run_dir and
\* label, appends a sample to runs/<label>/gpu_metrics.txt
TaskPoll(t) ==
    /\ t \in DOMAIN tasks
    /\ tasks[t].at = "stage"
    /\ tasks[t].gpu /\ gpu_available
    /\ tasks[t].samples < MaxSamples
    /\ tasks' = [tasks EXCEPT ![t].samples = @ + 1]
    /\ runDirs' = [runDirs EXCEPT ![tasks[t].label].gpuLog = Append(@, t)]
    /\ UNCHANGED <<engineVars, callVars>>

\* app.py:449-470: metrics.json is written and the run finishes
TaskMetrics(t) ==
    /\ t \in DOMAIN tasks
    /\ tasks[t].at = "metrics"
    /\ tasks' = [tasks EXCEPT ![t].at = "done"]
    /\ runDirs' = [runDirs EXCEPT ![tasks[t].label].writer["metrics.json"] = t,
                                  ![tasks[t].label].metrics = <<tasks[t].run_metrics>>]
    /\ UNCHANGED <<engineVars, callVars>>

LabelNext ==
    \/ \E l \in Labels, g \in BOOLEAN : RunCommand(l, g)
    \/ \E t \in 1..MaxRuns : TaskBegin(t)
    \/ \E t \in 1..MaxRuns : TaskStage(t)
    \/ \E t \in 1..MaxRuns : TaskPoll(t)
    \/ \E t \in 1..MaxRuns : TaskMetrics(t)

LabelSpec == LabelInit /\ [][LabelNext]_vars

\* ------------------------------------------------------------ properties
Healthy(v) == vstate[v] \in {"ok", "stalled"}
Registered(v) == v \in Range(clients)

\* the recipients the last broadcast call of src has gone past
Passed(src) ==
    IF Parked(src)
    THEN {v \in Viewers : \E k \in 1..Len(bc[src].snap) :
                              k < bc[src].i /\ bc[src].snap[k] = v}
    ELSE Viewers \ late[src]

\* every viewer the last call of src has gone past, and that is still registered
\* and connected, has received the event of that call
Delivered(src) ==
    \A v \in Passed(src) :
        Registered(v) /\ Healthy(v) /\ v \notin late[src] =>
            lastRecv[v][src] = lastKey[src]

FinishPublished == "finished" \in Range(runLog)
StagesOver == pc \in {"awaitPoller", "saveMetrics", "pubMetricsSaved", "pubMetricsFailed",
                      "pubSummary", "pubCpu", "pubMem", "pubDisk", "pubFinished", "done"}

\* C1: once a run has started it publishes its finish event
C1_RunFinishes == (pc = "created") ~> FinishPublished

\* C2: once the sequencer has cancelled the poller and awaits it, the await returns
C2_StopStepTerminates == (pc = "awaitPoller") ~> (pc = "saveMetrics")

\* C3: once cancellation was requested the poller appends no line to
\* gpu_metrics.txt and calls broadcast with no sample event
C3_NoSampleAfterCancel ==
    [][cancelRequested =>
          /\ gpuLog' = gpuLog
          /\ lastKey'["poll"] # lastKey["poll"] => polLast' # "sample"]_vars

\* C4: in every broadcast call, the viewers past which the call has gone have
\* received the event although the send to another one raised; a viewer whose
\* send raised is out of clients when the step of that send ends, and a call that
\* begins later neither holds it in its snapshot nor delivers to it
C4_Removed == removed \cap Range(clients) = {}
C4_NotLater ==
    \A src \in Sources : \A v \in removed :
        lastKey'[src] # lastKey[src] =>
            /\ lastRecv'[v][src] # lastKey'[src]
            /\ bc'[src].busy => v \notin Range(bc'[src].snap)
C4_FanOut ==
    /\ [](C4_Removed /\ \A src \in Sources : Delivered(src))
    /\ [][C4_NotLater]_vars

\* C5: the recipients of a broadcast call are the viewers that were in clients when
\* it was called: a viewer registered later has received nothing from the call,
\* the snapshot holds no viewer twice and none that registered later, and the call
\* goes past every viewer of the snapshot, also past one that was removed from
\* clients in the meantime
C5_Snapshot ==
    \A src \in Sources :
        /\ \A v \in late[src] : lastRecv[v][src] = 0
        /\ Parked(src) =>
              /\ bc[src].i \in 1..Len(bc[src].snap)
              /\ Cardinality(Range(bc[src].snap)) = Len(bc[src].snap)
              /\ Range(bc[src].snap) \cap late[src] = {}
        /\ ~Parked(src) => Delivered(src)

\* C6: no publisher is ever suspended inside a broadcast call by a viewer whose
\* send does not complete
C6_NoBackpressure == \A src \in Sources : ~Parked(src)

\* C7: the lines of a stage are published in the order the process printed them,
\* a viewer that has been registered since the stage read its n-th line has that
\* line as the last event received from the sequencer, and the keys of the events
\* a viewer receives from one source only grow
C7_LinesInOrder ==
    /\ \A nm \in StageNames : ev[nm].lines = [k \in 1..Len(ev[nm].lines) |-> k]
    /\ pc = "read" /\ output_lines # <<>> =>
          \A v \in Viewers :
              Registered(v) /\ Healthy(v) /\ v \notin late["seq"] =>
                  lastRecv[v]["seq"] = si * KeyWidth + 1 + Len(output_lines)
C7_KeysGrow ==
    \A src \in Sources :
        /\ lastKey'[src] >= lastKey[src]
        /\ \A v \in Viewers :
              \/ lastRecv'[v][src] \in {0, lastRecv[v][src]}
              \/ lastRecv'[v][src] > lastRecv[v][src]
C7_PerSourceOrder == []C7_LinesInOrder /\ [][C7_KeysGrow]_vars

\* C8: the stages run one after the other in list order: a stage has at most one
\* starting event, its lines come after it and before its terminal event, it has
\* exactly one terminal event when the sequencer has moved on, and a stage starts
\* only when every stage before it has its terminal event
C8_StageLog ==
    /\ \A nm \in StageNames \ Range(commands) : ev[nm] = NoEvents
    /\ \A j \in 1..Len(commands) :
          /\ ev[commands[j]].starts <= 1
          /\ Len(ev[commands[j]].terminals) <= ev[commands[j]].starts
          /\ ev[commands[j]].lines # <<>> => ev[commands[j]].starts = 1
          /\ ev[commands[j]].starts = 1 =>
                \A h \in 1..(j - 1) : /\ ev[commands[h]].starts = 1
                                      /\ Len(ev[commands[h]].terminals) = 1
          /\ j < si \/ StagesOver =>
                /\ ev[commands[j]].starts = 1
                /\ Len(ev[commands[j]].terminals) = 1
C8_StageStep ==
    \A nm \in StageNames :
        /\ ev'[nm].starts # ev[nm].starts =>
              ev[nm] = NoEvents /\ ev'[nm] = [NoEvents EXCEPT !.starts = 1]
        /\ ev'[nm].lines # ev[nm].lines =>
              /\ ev[nm].starts = 1
              /\ ev[nm].terminals = <<>>
              /\ ev'[nm].terminals = <<>>
        /\ ev'[nm].terminals # ev[nm].terminals => ev'[nm].lines = ev[nm].lines
C8_StageProtocol == []C8_StageLog /\ [][C8_StageStep]_vars

\* C9: when the sequencer has moved on from a stage, the raw output file of the
\* stage exists and holds the lines published for it
C9_RawOutputPersisted ==
    \A j \in 1..Len(commands) :
        j < si \/ StagesOver => stageFile[commands[j]] = ev[commands[j]].lines

PollerQuiet == ppc \in {"none", "done"} /\ ~Parked("poll")
AllStagesTerminal == \A j \in 1..Len(commands) : Len(ev[commands[j]].terminals) = 1
C10_Written ==
    /\ metricsWrites <= 1
    /\ metricsWrites = 1 =>
          /\ AllStagesTerminal
          /\ PollerQuiet
          /\ metricsJson = run_metrics
          /\ "metricsFailed" \notin Range(runLog)
    /\ metricsWrites = 0 => metricsJson = None /\ "metricsSaved" \notin Range(runLog)
    /\ FinishPublished =>
          /\ metricsWrites = 1 \/ "metricsFailed" \in Range(runLog)
          /\ PollerQuiet
C10_Frozen ==
    /\ metricsWrites = 1 =>
          /\ run_metrics' = run_metrics
          /\ metricsJson' = metricsJson
          /\ metricsWrites' = 1
    /\ FinishPublished =>
          /\ lastKey' = lastKey
          /\ ev' = ev
          /\ runLog' = runLog
          /\ gpuLog' = gpuLog
Active(t) == tasks[t].at \in {"created", "stage", "metrics"}
C11_OneRunPerLabel ==
    \A t, u \in 1..Len(tasks) :
        t # u /\ Active(t) /\ Active(u) => tasks[t].label # tasks[u].label

\* C12: when metrics.json is written its telemetry series holds as many samples as
\* gpu_metrics.txt has lines
C12_TelemetryInRecord ==
    metricsWrites > 0 =>
        /\ Len(metricsJson.gpu.temperature) = Len(gpuLog)
        /\ Len(metricsJson.gpu.utilization) = Len(gpuLog)
        /\ Len(metricsJson.gpu.memory_used) = Len(gpuLog)

\* C13: the poller task exists exactly when the run has passed app.py:348 with the
\* options asking for GPU telemetry and the query found available at startup; a
\* run without a poller publishes no poller event and appends no log line; a
\* poller in its stop or error handler, or ended, does not go back to querying
BeforePoller == pc \in {"idle", "created", "crashed", "pubStarted", "pubDir", "pubOllama",
                        "listModels", "pubModel", "pubInstall", "pull", "pubListFailed",
                        "pubListError"}
C13_Started ==
    /\ BeforePoller => ppc = "none"
    /\ ~BeforePoller => (ppc # "none" <=> options.gpu /\ gpu_available)
    /\ ppc = "none" => gpuLog = <<>> /\ lastKey["poll"] = 0 /\ polLast = "none"
C13_StaysStopped ==
    /\ ppc # "none" => ppc' # "none"
    /\ ppc \in {"pubStopped", "pubError", "done"} => ppc' \in {ppc, "done"}
    /\ ppc = "done" => gpuLog' = gpuLog /\ lastKey'["poll"] = lastKey["poll"]
C13_PollerStart == []C13_Started /\ [][C13_StaysStopped]_vars

\* C14: a query that ends without a sample event (non-zero exit, malformed output),
\* or that cannot be launched, has one failure event published for it, and the
\* poller goes on to its sleep
C14_QueryFailureReported ==
    [][/\ ppc = "query" /\ ~cancelPending /\ ppc' # ppc /\ polLast' # "sample" =>
              /\ lastKey'["poll"] = lastKey["poll"] + 1
              /\ polLast' = "queryFailed"
              /\ ppc' \in {"pubFail", "sleep"}
       /\ ppc = "launch" /\ ~cancelPending /\ ppc' # ppc /\ ppc' # "query" =>
              /\ lastKey'["poll"] = lastKey["poll"] + 1
              /\ polLast' = "queryFailed"
              /\ ppc' \in {"pubFail", "sleep"}]_vars

\* C16: every line of gpu_metrics.txt is five numbers and a newline, and a step
\* leaves the file as it is or appends one line to it
CompleteLine(l) ==
    /\ Len(l) = 6
    /\ \A i \in 1..5 : l[i].k = "num"
    /\ l[6].k = "\n"
C16_Complete == \A i \in 1..Len(gpuLog) : CompleteLine(gpuLog[i])
C16_AppendOnly ==
    \/ gpuLog' = gpuLog
    \/ Len(gpuLog') = Len(gpuLog) + 1 /\ SubSeq(gpuLog', 1, Len(gpuLog)) = gpuLog
NaTemperature(q) ==
    /\ q.returncode = 0
    /\ Len(q.gpu_data) = 4
    /\ q.gpu_data[1].k = "[N/A]"
    /\ \A i \in 2..4 : q.gpu_data[i].k = "num"
C15_SentinelKeepsSample ==
    ret.done /\ call.fn = "query" /\ NaTemperature(call.arg) => ret.val.kind = "sample"

\* the number of the line "events per second: <n>" stage nm printed, 0 without one
PrintedCpu(nm) ==
    Get(parse_sysbench_cpu(Texts(nm, ev[nm].lines), 1, NoMetrics), "events_per_second", 0)

\* C17: when metrics.json is written, cpu1Thread and cpuAllThreads are the numbers
\* of the "events per second" lines the two CPU stages printed
C17_CpuMetrics ==
    metricsWrites > 0 =>
        /\ PrintedCpu("CPU 1 thread") # 0 =>
               metricsJson.cpu1Thread = PrintedCpu("CPU 1 thread")
        /\ PrintedCpu("CPU all threads") # 0 =>
               metricsJson.cpuAllThreads = PrintedCpu("CPU all threads")

\* the rates of the lines "read, MiB/s" and "written, MiB/s" the disk test printed
PrintedDisk == parse_sysbench_disk(Texts("Disk test", ev["Disk test"].lines), 1, NoMetrics)

\* C18: when metrics.json is written after a disk test that printed its two rates,
\* disk.read and disk.write are these rates
C18_DiskMetrics ==
    metricsWrites > 0 /\ DOMAIN PrintedDisk = {"read_mib_s", "write_mib_s"} =>
        /\ metricsJson.diskRead = PrintedDisk["read_mib_s"]
        /\ metricsJson.diskWrite = PrintedDisk["write_mib_s"]

\* the rate of a line with "<n> MiB/sec", and the fields a memory output must give
\* when the lines at the places idx are the ones that count: the first sets read, a
\* later one sets write, or read when it mentions 'read'
RateOf(text) == text[Search(text, <<"num", "MiB/sec">>)].v
Last(idx) == CHOOSE i \in idx : \A j \in idx : j <= i
First(idx) == CHOOSE i \in idx : \A j \in idx : i <= j
ReadFrom(output, idx) ==
    IF idx = {} THEN 0
    ELSE RateOf(output[Last({First(idx)} \cup {i \in idx : Has(output[i], "read")})])
WriteFrom(output, idx) ==
    IF {i \in idx : i > First(idx) /\ ~Has(output[i], "read")} = {} THEN 0
    ELSE RateOf(output[Last({i \in idx : i > First(idx) /\ ~Has(output[i], "read")})])
Rated(output) == {i \in 1..Len(output) : Search(output[i], <<"num", "MiB/sec">>) # 0}
RatedTransfers(output) == {i \in Rated(output) : Has(output[i], "transferred")}

C20_RoundTrip ==
    metricsWrites > 0 =>
        /\ get_runs.cpu1Thread = metricsJson.cpu1Thread
        /\ get_runs.cpuAllThreads = metricsJson.cpuAllThreads
        /\ get_runs.memRead = metricsJson.memRead
        /\ get_runs.memWrite = metricsJson.memWrite
        /\ get_runs.diskRead = metricsJson.diskRead
        /\ get_runs.diskWrite = metricsJson.diskWrite

\* C21: once the stage list is complete it is the four base stages in their order,
\* followed by the one LLM stage exactly when the options ask for the LLM benchmark
\* and the tool was found available, so it is a function of the options and the
\* environment; the stages that have run are stages of the list, and all of them
\* when the run is over; with gpu and ollama both false the list is the four base
\* stages and no poller exists
StageList == BaseCommands \o (IF options.ollama /\ ollama_available THEN <<LlmStage>>
                              ELSE <<>>)
C21_StageList ==
    /\ ~BeforePoller => commands = StageList
    /\ BeforePoller => \A nm \in StageNames : ev[nm] = NoEvents
    /\ \A nm \in StageNames : ev[nm].starts > 0 => nm \in Range(StageList)
    /\ pc = "done" => \A nm \in Range(StageList) : ev[nm].starts = 1
    /\ ~options.gpu /\ ~options.ollama =>
          /\ ppc = "none"
          /\ ev[LlmStage] = NoEvents
          /\ ~BeforePoller => commands = BaseCommands

\* C22: when the LLM stage is asked for and the tool is available, the stage runs
\* the selected model, else the first listed one, else the default model after an
\* install that succeeded; when the listing fails or raises, or no model is listed
\* and the install fails or raises, the stage is a placeholder that echoes a
\* message; the four base stages are in the list in every case
Placeholders == {EchoUnavailable, EchoError}
C22_ModelResolution ==
    ~BeforePoller /\ options.ollama /\ ollama_available =>
        /\ SubSeq(commands, 1, 4) = BaseCommands
        /\ options.model # "" => llmCmd = OllamaRun(options.model)
        /\ resolved = "listed" => llmCmd = OllamaRun(FirstListed)
        /\ resolved = "pullOk" => llmCmd = OllamaRun(DefaultModel)
        /\ resolved \in {"listFailed", "listRaised", "pullFailed", "pullRaised"} =>
              llmCmd \in Placeholders

\* C23: the run command run:<label>[:gpu=v][:ollama=v][:model=<name>] starts a run
\* with that label, with gpu and ollama as given (false when absent) and with the
\* whole <name> as model, also when the name has a ':' before its tag
C23_CommandParsing ==
    ret.done /\ call.fn = "command" =>
        /\ ret.val.label = call.arg.label
        /\ ret.val.options.gpu = (call.arg.gpu = "true")
        /\ ret.val.options.ollama = (call.arg.ollama = "true")
        /\ ret.val.options.model = call.arg.model

\* C24: when the write of metrics.json raises, the failure event is published by
\* that step, the run goes on to its summary and its finish event and does not end
\* otherwise, and from the failure on no raw stage file changes
Before(log, a, b) ==
    \E i, j \in 1..Len(log) : i < j /\ log[i] = a /\ log[j] = b
C24_Continues ==
    "metricsFailed" \in Range(runLog) =>
        /\ metricsWrites = 0
        /\ pc \in {"pubMetricsFailed", "pubSummary", "pubCpu", "pubMem", "pubDisk",
                   "pubFinished", "done"}
        /\ pc = "done" => /\ Before(runLog, "metricsFailed", "summary")
                          /\ Before(runLog, "summary", "finished")
C24_FilesKept ==
    /\ pc = "saveMetrics" /\ pc' # pc /\ metricsWrites' = metricsWrites =>
          "metricsFailed" \in Range(runLog')
    /\ "metricsFailed" \in Range(runLog') =>
          stageFile' = stageFile /\ llmResponse' = llmResponse
C24_MetricsFailure == []C24_Continues /\ [][C24_FilesKept]_vars

\* C25: a stage whose command exited non-zero after its output was read to the end
\* has a terminal event that tells it from a stage that exited zero: it is not
\* the plain completed event
C25_ExitStatusReported ==
    \A j \in 1..Len(commands) :
        /\ rc # 0 /\ rc # -1
        /\ \/ pc = "launch" /\ si = j + 1
           \/ StagesOver /\ j = Len(commands)
        => ev[commands[j]].terminals # <<"completed">>

\* C26: the RunRecord of a task holds, for the stages the task has run, what its
\* own stages printed, and nothing for the others; a step changes the record of
\* one task at most, and only as a stage step of that task (no poller step and no
\* step of another task changes it); the metrics.json of a label that one task
\* runs under is the record of that task
StagesRun(t) ==
    {BaseCommands[j] : j \in {i \in 1..Len(BaseCommands) :
                                 tasks[t].at \in {"metrics", "done"} \/ i < tasks[t].si}}
OwnRecord(t) ==
    [nm \in Range(BaseCommands) |-> IF nm \in StagesRun(t) THEN Output(t, nm) ELSE 0]
C26_Own ==
    \A t \in DOMAIN tasks :
        /\ tasks[t].run_metrics = OwnRecord(t)
        /\ (\A u \in DOMAIN tasks : u # t => tasks[u].label # tasks[t].label) =>
              /\ tasks[t].at = "done" =>
                     runDirs[tasks[t].label].metrics = <<OwnRecord(t)>>
              /\ tasks[t].at # "done" => runDirs[tasks[t].label].metrics = <<>>
C26_OwnStep ==
    \A t \in DOMAIN tasks :
        tasks'[t].run_metrics # tasks[t].run_metrics =>
            /\ tasks[t].at = "stage"
            /\ tasks'[t].samples = tasks[t].samples
            /\ tasks'[t].si = tasks[t].si + 1 \/ tasks'[t].at = "metrics"
            /\ \A u \in DOMAIN tasks : u # t => tasks'[u] = tasks[u]
C26_RecordOwnership == []C26_Own /\ [][C26_OwnStep]_vars

\* C27: every call of a parser on an output returns what a first call on that
\* output returns, whatever was parsed before it, and a second call on the same
\* output returns what the first returned
Pure(fn, output) ==
    Parse(fn, output, IF fn = "parse_gpu_metrics" THEN GpuReadings ELSE NoMetrics)
C27_Stateless == ret.done /\ call.fn \in ParserFns => ret.val = Pure(call.fn, call.arg)
C27_Twice == ret.done /\ ret'.done => ret'.val = ret.val
C27_Idempotent == []C27_Stateless /\ [][C27_Twice]_vars

\* C28: when llm_response.txt is written its content has no escape character and
\* no three blank lines in a row (a blank line has nothing but blanks), and it is
\* written exactly when the cleaned text is not empty
BlankLine(line) == \A i \in 1..Len(line) : line[i].k = " "
BlankRun(content) ==
    \E i \in 1..(Len(SplitOn(content, "\n")) - 2) :
        \A j \in i..(i + 2) : BlankLine(SplitOn(content, "\n")[j])
C28_CleanResponse ==
    ret.done /\ call.fn = "clean_ansi_codes" =>
        /\ ret.val.written <=> ret.val.content # <<>>
        /\ ret.val.written => /\ ~Has(ret.val.content, "ESC")
                               /\ ~BlankRun(ret.val.content)

\* C29: for the cpu, memory and disk parsers, parsing an output line by line and
\* merging the mappings of the lines in order, later values over earlier ones,
\* gives the mapping of one parse of the whole output
Merge(a, b) == [x \in DOMAIN a \cup DOMAIN b |-> IF x \in DOMAIN b THEN b[x] ELSE a[x]]
RECURSIVE Incremental(_, _, _, _)
Incremental(fn, output, i, merged) ==
    IF i > Len(output) THEN merged
    ELSE Incremental(fn, output, i + 1, Merge(merged, Parse(fn, <<output[i]>>, NoMetrics)))
C29_IncrementalEqualsBatch ==
    ret.done /\ call.fn \in ParserFns \ {"parse_gpu_metrics"} =>
        ret.val = Incremental(call.fn, call.arg, 1, NoMetrics)

\* C30: a run whose directory was created (os.makedirs returned, the task is past
\* app.py:269) publishes its finish event, when every stage process ends
DirCreated == pc \notin {"idle", "created", "crashed"}
C30_OnlyFatalStep == DirCreated ~> FinishPublished

\* C31: after the summary header the run publishes the CPU line exactly when
\* cpuAllThreads is non-zero, the memory line exactly when a memory value (read or
\* write) is non-zero, and the disk line exactly when a disk value is non-zero
SummaryHas(line) == \E i \in 1..Len(ret.val.events) : ret.val.events[i] = line
C31_SummaryContent ==
    ret.done /\ call.fn = "summary" =>
        /\ SummaryHas("pubCpu") <=> ret.val.record.cpuAllThreads # 0
        /\ SummaryHas("pubMem") <=>
               (ret.val.record.memRead # 0 \/ ret.val.record.memWrite # 0)
        /\ SummaryHas("pubDisk") <=>
               (ret.val.record.diskRead # 0 \/ ret.val.record.diskWrite # 0)
        /\ ret.val.events[Len(ret.val.events)] = "pubFinished"

\* C31, as the code has it: the CPU line is published exactly when cpuAllThreads is
\* non-zero, the memory line exactly when the memory read rate is above zero and
\* the disk line exactly when the disk read rate is above zero (a write rate alone
\* publishes no line); the lines come in this order and the finish event is last
C31_SummaryByRead ==
    ret.done /\ call.fn = "summary" =>
        /\ SummaryHas("pubCpu") <=> ret.val.record.cpuAllThreads # 0
        /\ SummaryHas("pubMem") <=> ret.val.record.memRead > 0
        /\ SummaryHas("pubDisk") <=> ret.val.record.diskRead > 0
        /\ \A i, j \in 1..Len(ret.val.events) :
               i < j => SeqKey([pc |-> ret.val.events[i], commands |-> <<>>])
                          < SeqKey([pc |-> ret.val.events[j], commands |-> <<>>])
        /\ ret.val.events[Len(ret.val.events)] = "pubFinished"

\* C32: a viewer leaves the viewer set only by its own disconnect or by a send to
\* it that failed (its peer is gone); a step in which the poller is cancelled
\* inside a publish removes no viewer whose connection is healthy
Leaves(v) == v \in Range(clients) /\ v \notin Range(clients')
C32_CancelKeepsViewers == [][\A v \in Viewers : Leaves(v) => vstate[v] = "broken"]_vars

\* C33: a run whose directory was deleted while it executes still reaches its
\* finish event
C33_DeletedRunFinishes == deleted ~> FinishPublished

\* C34: a run whose initiator (the first viewer) has gone away, by a disconnect or
\* a failed delivery, still runs every stage to a terminal event, writes
\* metrics.json and publishes its finish event
InitiatorGone == pc \notin {"idle", "crashed"} /\ vstate[1] \in {"broken", "closed"}
RunComplete ==
    /\ FinishPublished
    /\ metricsWrites > 0
    /\ \A k \in 1..Len(commands) : ev[commands[k]].terminals # <<>>
C34_OutlivesInitiator == InitiatorGone ~> RunComplete

\* C35: clients holds no viewer twice; a viewer in it is connected (accepted, its
\* disconnect not yet handled) and no send to it has failed; a viewer enters it
\* only at its connect and never again; a step takes out of it only viewers that
\* disconnected or that a send raised on (a cancellation raised at the send
\* included), leaving the others in their order, also when the viewer it removes
\* was removed already
C35_Set ==
    /\ Cardinality(Range(clients)) = Len(clients)
    /\ \A v \in Range(clients) : vstate[v] \in {"ok", "stalled", "broken"} /\ v \notin removed
C35_Step ==
    /\ \A v \in Viewers :
           (v \notin Range(clients) /\ v \in Range(clients')) =>
               vstate[v] = "new" /\ clients' = Append(clients, v)
    /\ \A v \in Viewers : Leaves(v) => v \in removed' \/ vstate'[v] = "closed"
    /\ (\A v \in Viewers : v \in Range(clients') => v \in Range(clients)) =>
           clients' = SelectSeq(clients, LAMBDA u : u \in Range(clients'))
C35_ViewerSet == []C35_Set /\ [][C35_Step]_vars

\* ------------------------------------------------------------- reachable cases
\* C4: the send to a viewer raised and it was removed, and a viewer after it in
\* the list has the event
C4_Witness ==
    \E src \in Sources : \E v \in removed : \E u \in Viewers :
        /\ vstate[v] \in {"broken", "closed"}
        /\ u > v
        /\ Registered(u) /\ Healthy(u) /\ u \notin late[src]
        /\ lastKey[src] > 0
        /\ lastRecv[u][src] = lastKey[src]

\* C5: a viewer registered while a broadcast call was suspended at a recipient
C5_Witness ==
    \E src \in Sources : \E v \in late[src] :
        /\ Parked(src)
        /\ Registered(v) /\ Healthy(v)
        /\ v \notin Range(bc[src].snap)

\* C7: a viewer has received the last line of the first stage and a poller event
C7_Witness ==
    \E v \in Viewers :
        /\ pc = "read" /\ si = 1 /\ Len(output_lines) = MaxLines
        /\ Registered(v)
        /\ lastRecv[v]["seq"] = KeyWidth + 1 + MaxLines
        /\ lastRecv[v]["poll"] > 0

\* C8: a run is over in which a stage failed after some of its lines and another
\* stage completed
C8_Witness ==
    /\ pc = "done"
    /\ \E j, h \in 1..Len(commands) :
          /\ ev[commands[j]].terminals = <<"failed">>
          /\ ev[commands[j]].lines # <<>>
          /\ j < h
          /\ ev[commands[h]].terminals = <<"completed">>
          /\ Len(ev[commands[h]].lines) = MaxLines

C13_Witness ==
    /\ options.gpu /\ gpu_available
    /\ ppc = "done" /\ polLast = "stopped"
    /\ Len(gpuLog) = MaxSamples

C21_Witness ==
    /\ pc = "done"
    /\ commands = BaseCommands \o <<LlmStage>>
    /\ llmCmd = OllamaRun(FirstListed)
    /\ \A nm \in StageNames : ev[nm].terminals = <<"completed">>

\* C24: a run is over in which every stage wrote its file and the write of
\* metrics.json raised
C24_Witness ==
    /\ pc = "done"
    /\ "metricsFailed" \in Range(runLog)
    /\ FinishPublished
    /\ metricsWrites = 0
    /\ \A nm \in Range(commands) : stageFile[nm] # None

\* C26: two runs with different labels, each with a poller that has appended a
\* sample, are both between their stages, and the first has written metrics.json
\* when the second has not
C26_Witness ==
    /\ Len(tasks) = 2
    /\ tasks[1].label # tasks[2].label
    /\ tasks[1].samples > 0 /\ tasks[2].samples > 0
    /\ \/ /\ tasks[1].at = "stage" /\ tasks[1].si = 3
          /\ tasks[2].at = "stage" /\ tasks[2].si = 2
       \/ /\ tasks[1].at = "done" /\ tasks[2].at = "stage" /\ tasks[2].si = 4
          /\ runDirs[tasks[1].label].metrics = <<OwnRecord(1)>>

\* C27: a memory output with two rated lines was parsed a second time, and both
\* calls gave its read and its write rate
C27_Witness ==
    /\ call.fn = "parse_sysbench_memory"
    /\ ret.done /\ ret.n = MaxCalls
    /\ DOMAIN ret.val = {"read_mib_sec", "write_mib_sec"}
    /\ ret.val["read_mib_sec"] # ret.val["write_mib_sec"]

\* C31: the summary of a record with a CPU score, a memory read rate and a memory
\* write rate has the CPU line, the memory line and the finish event
C31_Witness ==
    /\ ret.done /\ call.fn = "summary"
    /\ ret.val.record.cpuAllThreads # 0
    /\ ret.val.record.memRead > 0
    /\ ret.val.record.memWrite > 0
    /\ ret.val.events = <<"pubCpu", "pubMem", "pubFinished">>

\* C35: a viewer was removed twice, by a send that failed on it and by its
\* disconnect, and the other viewer is still in clients
C35_Witness ==
    \E v \in Viewers :
        /\ vstate[v] = "closed"
        /\ v \in removed
        /\ \E u \in Viewers \ {v} : u \in Range(clients) /\ Healthy(u)

====
